---- MODULE Spec2Model ----
(***************************************************************************)
(* Model of the sales-briefing interpreter: the customer builder           *)
(* (customer_builder.py), the opportunity builder (opportunity_builder.py) *)
(* and the payload construction of services/customer_submission.py.        *)
(*                                                                         *)
(* Text is a sequence of one-character strings.  A CJK character is the    *)
(* token "uXXXX" of its code point (TLA+ strings are ASCII), a line feed   *)
(* is the token "LF".                                                      *)
(***************************************************************************)
EXTENDS Integers, Sequences, FiniteSets, TLC

VARIABLES
    numIn,      \* NumericParser: the value string handed to the parsers
    numOut,     \* NumericParser: [nfs, pn] results of the two parsers, once run
    numPc,      \* NumericParser: "input" | "done"
    conStart,   \* contract: the start date the text gives ([has, y, m, d])
    conYears,   \* contract: the contract years the text gives (0: none given)
    conEnd,     \* contract: the end date the text gives ([has, y, m, d])
    conPlanExt, \* contract: the plan text holds an extended-contract keyword
    conCtx,     \* contract: contractStartDate / contractEndDate / contractYears
    conAdd,     \* contract: what the two _add_years returned for (start, years)
    conPc,      \* contract: "text" | "context" | "payload"
    itemDate,   \* item line: the install date of the context ([has, y, m, d])
    itemCycle,  \* item line: the replacement cycle in months (0: none)
    itemLine,   \* item line: bodyDef define1 / define2 / define3 of the built line
    itemNext,   \* item line: [found, viaCycle] dates of _find_next_replacement_date
    itemPc,     \* item line: "context" | "built" | "found"
    bomText,    \* install items: the text of the items field
    bomItems,   \* install items: the resolved lines before deduplication
    bomOut,     \* install items: the lines _parse_install_items returns
    bomPc,      \* install items: "text" | "parsed"
    custText,   \* customer: the briefing text handed to parse_customer_text
    custNowYear,\* customer: the year of datetime.now()
    custRet,    \* customer: what the call returned, or the exception it raised
    custPc,     \* customer: "text" | "returned" | "raised"
    applyText,  \* application: the briefing text of the submission
    applySettings, \* application: the SubmissionSettings in force
    applyNow,   \* application: datetime.now() as [year, stamp, datetime, date]
    applyParsed,\* application: what parse_customer_text returned
    applyOut,   \* application: what build_apply_payload returned
    applyPc,    \* application: "text" | "parsed" | "failed" | "built"
    sessClock,     \* session cache: time.time(), in seconds
    sessCache,     \* session cache: the entries [token, createdAt, state] of the dict
    sessCreated,   \* session cache: successful opportunity creations per session
    sessLast,      \* session cache: the last call made, one request at a time
    sessReq,       \* session cache: per thread, the request it is running
    lblStage,      \* label caches: _STAGE_CACHE, entries [k, v] in insertion order
    lblTrans,      \* label caches: _TRANS_TYPE_CACHE
    lblLast,       \* label caches: the last use [which, looked, before, answer]
    runIn,         \* submission: skip_audit, opportunity fields present, create_opportunity
    runPc,         \* submission: the remote call run_submission is about to make
    runCalls,      \* submission: how often each remote call was sent
    runRetry,      \* submission: the submit was already answered by a pending error
    runAudit,      \* submission: "none" | "skipped" | "missing" | "passed" | "failed"
    runResponse,   \* submission: ids the application response carries
    runSession,    \* submission: the session of the token: "none" | "live" | "consumed"
    runOpportunity,\* submission: "none" | "created"
    lkCode,        \* id lookup: the customer code asked for
    lkRetries,     \* id lookup: the retries argument
    lkRemote,      \* id lookup: the follow-up records the remote system holds
    lkAttempts,    \* id lookup: _search_customer_id calls made
    lkSleeps,      \* id lookup: time.sleep(1.0) calls made
    lkRet,         \* id lookup: the customer id returned (<<>>: None)
    lkPc,          \* id lookup: "called" | "searched" | "slept" | "returned"
    taskRecords,   \* tasks: the task records handed to _extract_upcoming_task_date
    taskOwner,     \* tasks: owner_keyword (<<>>: None)
    taskGap,       \* tasks: max_gap_days (-1: None)
    taskRet,       \* tasks: the day returned (0: None)
    taskPc,        \* tasks: "called" | "returned"
    asgData,       \* assign: the entries of the target mapping
    asgField,      \* assign: field_code
    asgValue,      \* assign: the value to store
    asgPc,         \* assign: "called" | "assigned"
    chValue,       \* choice: the value of the categorical line
    chSite,        \* choice: the field the value was resolved for
    chChoice,      \* choice: what extract_choice returned, <<>> for None
    chLabel,       \* choice: the label the call site goes on with
    chPc,          \* choice: "value" | "resolved"
    lnParser,      \* lines: the parser that runs, "parse_lines" | "_parse_lines"
    lnLines,       \* lines: text.splitlines()
    lnI,           \* lines: the line the loop is at
    lnParsed,      \* lines: parsed, the value of each key
    lnKeys,        \* lines: the keys parsed has an entry for
    lnLastKey,     \* lines: last_key of parse_lines, "" for None
    lnPc,          \* lines: "loop" | "returned"
    monFields,     \* amounts: what the text gives
    monCustomer,   \* amounts: what the customer record gives
    monPlanExt,    \* amounts: the plan text holds a keyword of the extended contract
    monCtx,        \* amounts: the amounts of the opportunity context
    monPayload,    \* amounts: expectSignMoney of the create payload, <<>> for null
    monPc,         \* amounts: "text" | "context" | "created" | "payload"
    stgContext,    \* stage: usageLabel, stageHint and opptStage of the context
    stgSettings,   \* stage: the configured stages
    stgCache,      \* stage: _STAGE_CACHE, entries [k, v]
    stgStage,      \* stage: what _resolve_stage_value returned
    stgData,       \* stage: opptStage, process and processStage of the payload
    stgPc,         \* stage: "context" | "resolved" | "payload"
    prodText,      \* products: the product text looked up
    prodFound,     \* products: the step of _lookup_products that answered and its results
    prodItems,     \* products: the lines _parse_install_items returns for the text
    prodPc         \* products: "text" | "found" | "parsed"

numVars == <<numIn, numOut, numPc>>

conVars == <<conStart, conYears, conEnd, conPlanExt, conCtx, conAdd, conPc>>

itemVars == <<itemDate, itemCycle, itemLine, itemNext, itemPc>>

bomVars == <<bomText, bomItems, bomOut, bomPc>>

custVars == <<custText, custNowYear, custRet, custPc>>

applyVars == <<applyText, applySettings, applyNow, applyParsed, applyOut, applyPc>>

sessVars == <<sessClock, sessCache, sessCreated, sessLast, sessReq>>

lblVars == <<lblStage, lblTrans, lblLast>>

runVars == <<runIn, runPc, runCalls, runRetry, runAudit, runResponse, runSession, runOpportunity>>

lkVars == <<lkCode, lkRetries, lkRemote, lkAttempts, lkSleeps, lkRet, lkPc>>

taskVars == <<taskRecords, taskOwner, taskGap, taskRet, taskPc>>

asgVars == <<asgData, asgField, asgValue, asgPc>>

chVars == <<chValue, chSite, chChoice, chLabel, chPc>>

lnVars == <<lnParser, lnLines, lnI, lnParsed, lnKeys, lnLastKey, lnPc>>

monVars == <<monFields, monCustomer, monPlanExt, monCtx, monPayload, monPc>>

stgVars == <<stgContext, stgSettings, stgCache, stgStage, stgData, stgPc>>

prodVars == <<prodText, prodFound, prodItems, prodPc>>

vars == <<numVars, conVars, itemVars, bomVars, custVars, applyVars, sessVars, lblVars, runVars, lkVars, taskVars, asgVars, chVars, lnVars, monVars, stgVars, prodVars>>

\* what the actions of one component leave alone
notNum == <<conVars, itemVars, bomVars, custVars, applyVars, sessVars, lblVars, runVars, lkVars, taskVars, asgVars, chVars, lnVars, monVars, stgVars, prodVars>>

notCon == <<numVars, itemVars, bomVars, custVars, applyVars, sessVars, lblVars, runVars, lkVars, taskVars, asgVars, chVars, lnVars, monVars, stgVars, prodVars>>

notItem == <<numVars, conVars, bomVars, custVars, applyVars, sessVars, lblVars, runVars, lkVars, taskVars, asgVars, chVars, lnVars, monVars, stgVars, prodVars>>

notBom == <<numVars, conVars, itemVars, custVars, applyVars, sessVars, lblVars, runVars, lkVars, taskVars, asgVars, chVars, lnVars, monVars, stgVars, prodVars>>

notCust == <<numVars, conVars, itemVars, bomVars, applyVars, sessVars, lblVars, runVars, lkVars, taskVars, asgVars, chVars, lnVars, monVars, stgVars, prodVars>>

notApply == <<numVars, conVars, itemVars, bomVars, custVars, sessVars, lblVars, runVars, lkVars, taskVars, asgVars, chVars, lnVars, monVars, stgVars, prodVars>>

notSess == <<numVars, conVars, itemVars, bomVars, custVars, applyVars, lblVars, runVars, lkVars, taskVars, asgVars, chVars, lnVars, monVars, stgVars, prodVars>>

notLbl == <<numVars, conVars, itemVars, bomVars, custVars, applyVars, sessVars, runVars, lkVars, taskVars, asgVars, chVars, lnVars, monVars, stgVars, prodVars>>

notRun == <<numVars, conVars, itemVars, bomVars, custVars, applyVars, sessVars, lblVars, lkVars, taskVars, asgVars, chVars, lnVars, monVars, stgVars, prodVars>>

notLk == <<numVars, conVars, itemVars, bomVars, custVars, applyVars, sessVars, lblVars, runVars, taskVars, asgVars, chVars, lnVars, monVars, stgVars, prodVars>>

notTask == <<numVars, conVars, itemVars, bomVars, custVars, applyVars, sessVars, lblVars, runVars, lkVars, asgVars, chVars, lnVars, monVars, stgVars, prodVars>>

notAsg == <<numVars, conVars, itemVars, bomVars, custVars, applyVars, sessVars, lblVars, runVars, lkVars, taskVars, chVars, lnVars, monVars, stgVars, prodVars>>

notChoice == <<numVars, conVars, itemVars, bomVars, custVars, applyVars, sessVars, lblVars, runVars, lkVars, taskVars, asgVars, lnVars, monVars, stgVars, prodVars>>

notLines == <<numVars, conVars, itemVars, bomVars, custVars, applyVars, sessVars, lblVars, runVars, lkVars, taskVars, asgVars, chVars, monVars, stgVars, prodVars>>

notMon == <<numVars, conVars, itemVars, bomVars, custVars, applyVars, sessVars, lblVars, runVars, lkVars, taskVars, asgVars, chVars, lnVars, stgVars, prodVars>>

notStg == <<numVars, conVars, itemVars, bomVars, custVars, applyVars, sessVars, lblVars, runVars, lkVars, taskVars, asgVars, chVars, lnVars, monVars, prodVars>>

notProd == <<numVars, conVars, itemVars, bomVars, custVars, applyVars, sessVars, lblVars, runVars, lkVars, taskVars, asgVars, chVars, lnVars, monVars, stgVars>>

(***************************************************************************)
(* Characters and strings                                                  *)
(***************************************************************************)
Digits == {"0", "1", "2", "3", "4", "5", "6", "7", "8", "9"}

IsDigit(c) == c \in Digits

\* str.strip() and the regex class \s
IsSpace(c) == c \in {" ", "TAB", "LF", "u3000"}

DigitVal(c) ==
    CASE c = "0" -> 0 [] c = "1" -> 1 [] c = "2" -> 2 [] c = "3" -> 3
      [] c = "4" -> 4 [] c = "5" -> 5 [] c = "6" -> 6 [] c = "7" -> 7
      [] c = "8" -> 8 [] c = "9" -> 9

DigitChar(n) == <<"0", "1", "2", "3", "4", "5", "6", "7", "8", "9">>[n + 1]

UpperLetters == <<"A", "B", "C", "D", "E", "F", "G", "H", "I", "J", "K", "L", "M",
                  "N", "O", "P", "Q", "R", "S", "T", "U", "V", "W", "X", "Y", "Z">>

LowerLetters == <<"a", "b", "c", "d", "e", "f", "g", "h", "i", "j", "k", "l", "m",
                  "n", "o", "p", "q", "r", "s", "t", "u", "v", "w", "x", "y", "z">>

\* the lower / upper case of each ASCII letter
ToLower == [c \in {UpperLetters[i] : i \in 1..26} |->
               LowerLetters[CHOOSE i \in 1..26 : UpperLetters[i] = c]]

ToUpper == [c \in {LowerLetters[i] : i \in 1..26} |->
               UpperLetters[CHOOSE i \in 1..26 : LowerLetters[i] = c]]

LowerChar(c) == IF c \in DOMAIN ToLower THEN ToLower[c] ELSE c

UpperChar(c) == IF c \in DOMAIN ToUpper THEN ToUpper[c] ELSE c

\* str.lower() / str.upper()
Lower(s) == [i \in 1..Len(s) |-> LowerChar(s[i])]

Upper(s) == [i \in 1..Len(s) |-> UpperChar(s[i])]

\* needle in hay
Contains(hay, needle) ==
    \/ needle = <<>>
    \/ \E i \in 1..(Len(hay) - Len(needle) + 1) :
           hay[i] = needle[1] /\ SubSeq(hay, i, i + Len(needle) - 1) = needle

\* str.strip(): leading and trailing whitespace removed
Strip(s) ==
    IF \A i \in 1..Len(s) : IsSpace(s[i]) THEN <<>>
    ELSE LET a == CHOOSE i \in 1..Len(s) :
                      ~IsSpace(s[i]) /\ \A j \in 1..(i - 1) : IsSpace(s[j])
             b == CHOOSE i \in 1..Len(s) :
                      ~IsSpace(s[i]) /\ \A j \in (i + 1)..Len(s) : IsSpace(s[j])
         IN SubSeq(s, a, b)

\* the characters of s that are not c: s.replace(c, "")
Without(s, c) == SelectSeq(s, LAMBDA x : x # c)

\* every sequence over alphabet of length at most n
SeqsUpTo(alphabet, n) == UNION {[1..k -> alphabet] : k \in 0..n}

\* the end of the maximal run of characters of class cls that starts at i
\* (i - 1 when s[i] is not in the class)
RunEnd(s, i, cls) ==
    IF i > Len(s) \/ s[i] \notin cls THEN i - 1
    ELSE CHOOSE j \in i..Len(s) :
             /\ \A k \in i..j : s[k] \in cls
             /\ (j = Len(s) \/ s[j + 1] \notin cls)

\* the first position at or after i that is not whitespace: what \s* skips
SkipSpace(s, i) == RunEnd(s, i, {" ", "TAB", "LF", "u3000"}) + 1

(***************************************************************************)
(* Numbers.  A float is held exactly as mantissa m over 10^e with no       *)
(* trailing zero in the fraction, so that equal numbers are equal records. *)
(***************************************************************************)
NoNumber == [ok |-> FALSE, m |-> 0, e |-> 0]

RECURSIVE Normal(_, _)
Normal(m, e) ==
    IF e > 0 /\ m % 10 = 0 THEN Normal(m \div 10, e - 1)
    ELSE [ok |-> TRUE, m |-> m, e |-> e]

RECURSIVE DigitsValue(_)
DigitsValue(s) ==
    IF s = <<>> THEN 0
    ELSE 10 * DigitsValue(SubSeq(s, 1, Len(s) - 1)) + DigitVal(s[Len(s)])

\* float(s) for s over digits, "." and "-": NoNumber stands for ValueError
FloatOf(s) ==
    LET neg  == s # <<>> /\ s[1] = "-"
        body == IF neg THEN Tail(s) ELSE s
        dots == {i \in 1..Len(body) : body[i] = "."}
        ip   == IF dots = {} THEN body
                ELSE SubSeq(body, 1, (CHOOSE i \in dots : TRUE) - 1)
        fp   == IF dots = {} THEN <<>>
                ELSE SubSeq(body, (CHOOSE i \in dots : TRUE) + 1, Len(body))
        wellFormed ==
            /\ Cardinality(dots) <= 1
            /\ \A i \in 1..Len(body) : body[i] \in Digits \cup {"."}
            /\ Len(ip) + Len(fp) >= 1
        mag  == DigitsValue(ip \o fp)
    IN IF wellFormed
       THEN Normal(IF neg THEN 0 - mag ELSE mag, Len(fp))
       ELSE NoNumber

Times(a, b) == Normal(a.m * b.m, a.e + b.e)

(***************************************************************************)
(* NumericParser                                                           *)
(***************************************************************************)
\* re.search(r"=\s*([0-9,]+)", value): the group of the leftmost match, as
\* [found, text]
EqualsMatch(value) ==
    LET cls  == Digits \cup {","}
        hits == {i \in 1..Len(value) :
                    /\ value[i] = "="
                    /\ SkipSpace(value, i + 1) <= Len(value)
                    /\ value[SkipSpace(value, i + 1)] \in cls}
    IN IF hits = {} THEN [found |-> FALSE, text |-> <<>>]
       ELSE LET i == CHOOSE h \in hits : \A g \in hits : h <= g
                a == SkipSpace(value, i + 1)
            IN [found |-> TRUE, text |-> SubSeq(value, a, RunEnd(value, a, cls))]

\* re.search(r"(cls+)\s*\*\s*(cls+)", value): both groups of the leftmost
\* match, as [found, left, right]
MultiplyMatch(value, cls) ==
    LET star(i) == SkipSpace(value, RunEnd(value, i, cls) + 1)
        hits == {i \in 1..Len(value) :
                    /\ value[i] \in cls
                    /\ star(i) <= Len(value)
                    /\ value[star(i)] = "*"
                    /\ SkipSpace(value, star(i) + 1) <= Len(value)
                    /\ value[SkipSpace(value, star(i) + 1)] \in cls}
    IN IF hits = {} THEN [found |-> FALSE, left |-> <<>>, right |-> <<>>]
       ELSE LET i == CHOOSE h \in hits : \A g \in hits : h <= g
                b == SkipSpace(value, star(i) + 1)
            IN [found |-> TRUE,
                left  |-> SubSeq(value, i, RunEnd(value, i, cls)),
                right |-> SubSeq(value, b, RunEnd(value, b, cls))]

\* re.sub(r"[^0-9.\-]", "", value) and float() of what is left
DigitStrip(value) ==
    LET normalized == SelectSeq(value, LAMBDA c : c \in Digits \cup {".", "-"})
    IN IF normalized = <<>> THEN NoNumber ELSE FloatOf(normalized)

\* the multiplication step of both parsers; the operand class is the
\* parser's own
MultiplyOrStrip(value, cls) ==
    LET mm == MultiplyMatch(value, cls)
        l  == FloatOf(Without(mm.left, ","))
        r  == FloatOf(Without(mm.right, ","))
    IN IF mm.found /\ l.ok /\ r.ok THEN Times(l, r) ELSE DigitStrip(value)

NumberAfterEquals(value, cls) ==
    LET em == EqualsMatch(value)
        rs == FloatOf(Without(em.text, ","))
    IN IF em.found /\ rs.ok THEN rs ELSE MultiplyOrStrip(value, cls)

\* customer_builder.number_from_string
number_from_string(value) == NumberAfterEquals(value, Digits \cup {","})

\* opportunity_builder._parse_number
_parse_number(text) ==
    LET clean == Strip(text)
    IN IF clean = <<>> THEN NoNumber
       ELSE NumberAfterEquals(clean, Digits \cup {",", "."})

MaxNumLen == 4

NumAlphabet == {"1", "5", ".", ",", "*", "=", "x"}

NumberExamples ==
    { <<"2", "8", "8", "*", "2", "4", "=", "6", "9", "1", "2">>,
      <<"2", "8", "8", "*", "2", "4">>,
      <<"$", "1", ",", "2", "3", "4", ".", "5", "0", " ", "u5143">>,
      <<"1", ".", "5", " ", "*", " ", "2">>,
      <<"-", "5">>, <<"1", "2", "-", "3">> }

NumInit ==
    /\ numIn \in SeqsUpTo(NumAlphabet, MaxNumLen) \cup NumberExamples
    /\ numOut = [nfs |-> NoNumber, pn |-> NoNumber]
    /\ numPc = "input"

ParseNumbers ==
    /\ numPc = "input"
    /\ numOut' = [nfs |-> number_from_string(numIn), pn |-> _parse_number(numIn)]
    /\ numPc' = "done"
    /\ UNCHANGED <<numIn, notNum>>

NumNext == ParseNumbers

NumIdle ==
    /\ numIn = <<>>
    /\ numOut = [nfs |-> NoNumber, pn |-> NoNumber]
    /\ numPc = "idle"

(***************************************************************************)
(* Calendar dates (datetime.date): [has, y, m, d]; has = FALSE is None, or *)
(* the ValueError of a date that does not exist.                           *)
(***************************************************************************)
NoDate == [has |-> FALSE, y |-> 0, m |-> 0, d |-> 0]

MkDate(y, m, d) == [has |-> TRUE, y |-> y, m |-> m, d |-> d]

MAXYEAR == 9999

IsLeap(y) == y % 4 = 0 /\ (y % 100 # 0 \/ y % 400 = 0)

DaysInMonth(y, m) ==
    IF m = 2 THEN (IF IsLeap(y) THEN 29 ELSE 28)
    ELSE IF m \in {4, 6, 9, 11} THEN 30 ELSE 31

\* date(y, m, d) succeeds
ValidDate(y, m, d) ==
    /\ y >= 1 /\ y <= MAXYEAR
    /\ m >= 1 /\ m <= 12
    /\ d >= 1 /\ d <= DaysInMonth(y, m)

\* date(y, m, d): NoDate stands for the ValueError
DateOf(y, m, d) == IF ValidDate(y, m, d) THEN MkDate(y, m, d) ELSE NoDate

Pad2(n) == <<DigitChar((n \div 10) % 10), DigitChar(n % 10)>>

Pad4(n) == <<DigitChar((n \div 1000) % 10), DigitChar((n \div 100) % 10)>> \o Pad2(n)

\* value.strftime("%Y-%m-%d"); None gives None (the empty string here)
_date_to_string(value) ==
    IF ~value.has THEN <<>>
    ELSE Pad4(value.y) \o <<"-">> \o Pad2(value.m) \o <<"-">> \o Pad2(value.d)

\* customer_submission._parse_date on a YYYY-MM-DD string: fromisoformat,
\* then strptime of the first ten characters; None when neither parses
_parse_date(value) ==
    LET text == Strip(value)
        t    == SubSeq(text, 1, 10)
        shaped ==
            /\ Len(text) >= 10
            /\ \A i \in {1, 2, 3, 4, 6, 7, 9, 10} : IsDigit(t[i])
            /\ t[5] = "-" /\ t[8] = "-"
    IN IF shaped
       THEN DateOf(DigitsValue(SubSeq(t, 1, 4)), DigitsValue(SubSeq(t, 6, 7)),
                   DigitsValue(SubSeq(t, 9, 10)))
       ELSE NoDate

\* base.replace(year = y, month = m, day = d)
Replace(y, m, d) == DateOf(y, m, d)

\* _add_years with the leap day carried to 1 March instead of 28 February
AddYearsToMarch(base, years) ==
    LET kept == Replace(base.y + years, base.m, base.d)
    IN IF kept.has THEN kept ELSE Replace(base.y + years, 3, 1)

\* customer_submission._add_years
_add_years(base, years) ==
    LET kept == Replace(base.y + years, base.m, base.d)
    IN IF kept.has THEN kept ELSE Replace(base.y + years, 2, 28)

\* opportunity_builder._add_years
builder_add_years(base, years) ==
    LET kept == Replace(base.y + years, base.m, base.d)
    IN IF kept.has THEN kept ELSE Replace(base.y + years, 2, 28)

(***************************************************************************)
(* Contract dates: _build_context, then _build_opportunity_create_payload  *)
(***************************************************************************)
opportunity_contract_default_years == 2

opportunity_contract_extended_years == 3

Max(a, b) == IF a >= b THEN a ELSE b

\* _determine_contract_years; planExt: _contains_keyword(plan_text, keywords)
_determine_contract_years(planExt) ==
    IF planExt
    THEN Max(opportunity_contract_extended_years, opportunity_contract_default_years)
    ELSE opportunity_contract_default_years

\* _build_context: contract_end of lines 499-500
ContextContractEnd(contract_start, contract_end, contract_years) ==
    IF contract_start.has /\ ~contract_end.has /\ contract_years # 0
    THEN builder_add_years(contract_start, contract_years)
    ELSE contract_end

\* _build_opportunity_create_payload: contractYears and contractEndDate of
\* the context after lines 1171-1184
PayloadContractYears(ctx, planExt) ==
    IF ctx.contractYears # 0 THEN ctx.contractYears
    ELSE _determine_contract_years(planExt)

PayloadContractEnd(ctx, planExt) ==
    LET contract_years == PayloadContractYears(ctx, planExt)
        start_date     == _parse_date(ctx.contractStartDate)
    IN IF contract_years # 0 /\ ctx.contractStartDate # <<>>
          /\ ctx.contractEndDate = <<>> /\ start_date.has
       THEN _date_to_string(_add_years(start_date, contract_years))
       ELSE ctx.contractEndDate

BaseYear == 2023

YearSpan == 2

CenturyYear == 2100

MaxYears == 4

\* the start years tried: a window, and the years around a century that is
\* no leap year
StartYears == (BaseYear..(BaseYear + YearSpan)) \cup {CenturyYear - 4, CenturyYear}

AllDates(years) ==
    {MkDate(y, m, d) : y \in years, m \in 1..12, d \in 1..31} \cap
    {dt \in [has : {TRUE}, y : years, m : 1..12, d : 1..31] : ValidDate(dt.y, dt.m, dt.d)}

ConInit ==
    /\ conStart \in AllDates(StartYears) \cup {NoDate}
    /\ conYears \in 0..MaxYears
    /\ conEnd \in {NoDate, MkDate(BaseYear + 1, 6, 30)}
    /\ conPlanExt \in BOOLEAN
    /\ conCtx = [contractStartDate |-> <<>>, contractEndDate |-> <<>>, contractYears |-> 0]
    /\ conAdd = [cs |-> NoDate, ob |-> NoDate]
    /\ conPc = "text"

\* opportunity_builder._build_context, its contract dates
BuildContextDates ==
    /\ conPc = "text"
    /\ conCtx' = [contractStartDate |-> _date_to_string(conStart),
                  contractEndDate   |->
                      _date_to_string(ContextContractEnd(conStart, conEnd, conYears)),
                  contractYears     |-> conYears]
    /\ conAdd' = IF conStart.has /\ conYears # 0
                 THEN [cs |-> _add_years(conStart, conYears),
                       ob |-> builder_add_years(conStart, conYears)]
                 ELSE conAdd
    /\ conPc' = "context"
    /\ UNCHANGED <<conStart, conYears, conEnd, conPlanExt, notCon>>

\* customer_submission._build_opportunity_create_payload, its contract dates
BuildPayloadDates ==
    /\ conPc = "context"
    /\ conCtx' = [conCtx EXCEPT !.contractYears = PayloadContractYears(conCtx, conPlanExt),
                                !.contractEndDate = PayloadContractEnd(conCtx, conPlanExt)]
    /\ conPc' = "payload"
    /\ UNCHANGED <<conStart, conYears, conEnd, conPlanExt, conAdd, notCon>>

ConNext == BuildContextDates \/ BuildPayloadDates

ConIdle ==
    /\ conStart = NoDate /\ conYears = 0 /\ conEnd = NoDate /\ conPlanExt = FALSE
    /\ conCtx = [contractStartDate |-> <<>>, contractEndDate |-> <<>>, contractYears |-> 0]
    /\ conAdd = [cs |-> NoDate, ob |-> NoDate]
    /\ conPc = "idle"

(***************************************************************************)
(* Item lines: the next replacement date                                   *)
(***************************************************************************)
Min(a, b) == IF a <= b THEN a ELSE b

\* the leap test of the month table with every year divisible by 4 a leap year
InlineLeapEveryFourth(year) == year % 4 = 0

\* the leap test of the month table in _build_opportunity_items:
\* year % 4 == 0 and not year % 100 == 0 or year % 400 == 0
InlineLeap(year) == (year % 4 = 0 /\ ~(year % 100 = 0)) \/ year % 400 = 0

InlineMonthTable(year) ==
    <<31, IF InlineLeap(year) THEN 29 ELSE 28, 31, 30, 31, 30, 31, 31, 30, 31, 30, 31>>

\* _build_opportunity_items, lines 1459-1490: attrext13 of a line whose
\* install date string is install_date, <<>> when the try block fails
InlineNextDate(install_date, cycle_months) ==
    LET base  == _parse_date(SubSeq(install_date, 1, Min(10, Len(install_date))))
        total == base.m - 1 + cycle_months
        year  == base.y + total \div 12
        month == (total % 12) + 1
        day   == Min(base.d, InlineMonthTable(year)[month])
    IN IF base.has
       THEN Pad4(year) \o <<"-">> \o Pad2(month) \o <<"-">> \o Pad2(day)
       ELSE <<>>

\* _build_opportunity_items: bodyDef of one line
ItemBodyDef(install_date, cycle_months) ==
    [define1 |-> install_date,
     define2 |-> cycle_months,
     define3 |-> IF cycle_months # 0 THEN InlineNextDate(install_date, cycle_months)
                 ELSE <<>>]

\* date - timedelta(days = 1)
DayBefore(dt) ==
    IF ~dt.has THEN NoDate
    ELSE IF dt.d > 1 THEN MkDate(dt.y, dt.m, dt.d - 1)
    ELSE IF dt.m > 1 THEN DateOf(dt.y, dt.m - 1, DaysInMonth(dt.y, dt.m - 1))
    ELSE DateOf(dt.y - 1, 12, 31)

\* customer_submission._days_in_month
_days_in_month(year, month) ==
    LET next_month == IF month = 12 THEN DateOf(year + 1, 1, 1)
                      ELSE DateOf(year, month + 1, 1)
    IN DayBefore(next_month).d

\* customer_submission._add_months
_add_months(d, months) ==
    LET year  == d.y + (d.m - 1 + months) \div 12
        month == ((d.m - 1 + months) % 12) + 1
        day   == Min(d.d, _days_in_month(year, month))
    IN DateOf(year, month, day)

\* _find_next_replacement_date, the candidate of one line: define3 first,
\* else define1 + define2 through _add_months
FoundCandidate(body) ==
    IF body.define3 # <<>> /\ _parse_date(body.define3).has
    THEN _parse_date(body.define3)
    ELSE IF body.define1 # <<>> /\ body.define2 # 0 /\ _parse_date(body.define1).has
    THEN _add_months(_parse_date(body.define1), body.define2)
    ELSE NoDate

\* the same with define3 absent: the define1 + define2 branch
CycleCandidate(body) == FoundCandidate([body EXCEPT !.define3 = <<>>])

MaxCycle == 25

NoBodyDef == [define1 |-> <<>>, define2 |-> 0, define3 |-> <<>>]

ItemInit ==
    /\ itemDate \in AllDates(StartYears) \cup {NoDate}
    /\ itemCycle \in 0..MaxCycle
    /\ itemLine = NoBodyDef
    /\ itemNext = [found |-> NoDate, viaCycle |-> NoDate]
    /\ itemPc = "context"

\* _build_opportunity_items for one line
BuildItemLine ==
    /\ itemPc = "context"
    /\ itemLine' = ItemBodyDef(_date_to_string(itemDate), itemCycle)
    /\ itemPc' = "built"
    /\ UNCHANGED <<itemDate, itemCycle, itemNext, notItem>>

\* _find_next_replacement_date over that line
FindNextReplacement ==
    /\ itemPc = "built"
    /\ itemNext' = [found |-> FoundCandidate(itemLine), viaCycle |-> CycleCandidate(itemLine)]
    /\ itemPc' = "found"
    /\ UNCHANGED <<itemDate, itemCycle, itemLine, notItem>>

ItemNext == BuildItemLine \/ FindNextReplacement

ItemIdle ==
    /\ itemDate = NoDate /\ itemCycle = 0 /\ itemLine = NoBodyDef
    /\ itemNext = [found |-> NoDate, viaCycle |-> NoDate]
    /\ itemPc = "idle"

(***************************************************************************)
(* Install items: _parse_install_items over the catalog of _lookup_products *)
(***************************************************************************)
\* str(n) of a natural number
RECURSIVE NatStr(_)
NatStr(n) == IF n < 10 THEN <<DigitChar(n)>> ELSE NatStr(n \div 10) \o <<DigitChar(n % 10)>>

\* re.split on a character class: the pieces between the characters of seps
RECURSIVE SplitOn(_, _)
SplitOn(s, seps) ==
    LET cuts == {i \in 1..Len(s) : s[i] \in seps}
    IN IF cuts = {} THEN <<s>>
       ELSE LET cut == CHOOSE i \in cuts : \A j \in cuts : i <= j
            IN <<SubSeq(s, 1, cut - 1)>> \o SplitOn(SubSeq(s, cut + 1, Len(s)), seps)

\* the catalog of _lookup_products in its order; a text is the sequence of
\* its characters, uXXXX standing for the character of that code point;
\* code and cycle of a kit are not read and are left empty
catalog ==
    <<
    [key |-> <<"R", "O", "9", "0", "0", "S">>,
     code |-> <<"1", "4", "1", "4">>, cycle |-> <<>>,
     name |-> <<"R", "O", "-", "9", "0", "0", "S", " ", "E", ".", "P", "u5FAE", "u96FB", "u8166", "u53EF", "u8ABF", "u5F0F", "R", "O", "u7D14", "u6C34", "u6A5F">>,
     children |-> <<<<"R", "-", "0", "0", "2">>, <<"R", "-", "0", "0", "1">>>>],
    [key |-> <<"R", "O", "6", "0", "0", "G">>,
     code |-> <<"1", "5", "8", "1">>, cycle |-> <<>>,
     name |-> <<"E", "V", "E", "R", "P", "O", "L", "L", "-", "R", "O", "-", "6", "0", "0", "G", " ", "R", "O", "u6A5F">>,
     children |-> <<<<"R", "O", "6", "0", "0", "G", "u4E3B">>, <<"R", "O", "5", "0", "0", "G", "u819C">>, <<"R", "O", "5", "0", "0", "G", "u70AD">>, <<"R", "O", "5", "0", "0", "G", "P", "P">>>>],
    [key |-> <<"R", "O", "6", "0", "0", "G", "u4E3B">>,
     code |-> <<"1", "5", "8", "1">>, cycle |-> <<>>,
     name |-> <<"E", "V", "E", "R", "P", "O", "L", "L", "-", "R", "O", "-", "6", "0", "0", "G", " ", "R", "O", "u6A5F">>,
     children |-> <<>>],
    [key |-> <<"R", "O", "5", "0", "0", "G", "u819C">>,
     code |-> <<"1", "5", "5", "8">>, cycle |-> <<"2", "4">>,
     name |-> <<"R", "O", "5", "0", "0", "G", " ", "u7B2C", "u4E8C", "u9053", "R", "O", "u9006", "u6EF2", "u900F", "u819C">>,
     children |-> <<>>],
    [key |-> <<"R", "O", "5", "0", "0", "G", "u70AD">>,
     code |-> <<"1", "5", "5", "9">>, cycle |-> <<"1", "2">>,
     name |-> <<"R", "O", "5", "0", "0", "G", " ", "u7B2C", "u4E09", "u9053", "u6D3B", "u6027", "u70AD", "u6FFE", "u82AF">>,
     children |-> <<>>],
    [key |-> <<"R", "O", "5", "0", "0", "G", "P", "P">>,
     code |-> <<"1", "5", "5", "7">>, cycle |-> <<"6">>,
     name |-> <<"R", "O", "5", "0", "0", "G", " ", "u7B2C", "u4E00", "u9053", "u7384", "u6B66", "u5CA9", "u5408", "u6210", "u6D3B", "u6027", "P", "P">>,
     children |-> <<>>],
    [key |-> <<"O", "N", "Y", "X">>,
     code |-> <<"1", "5", "8", "7">>, cycle |-> <<>>,
     name |-> <<"L", "I", "V", "I", "N", "G", "C", "A", "R", "E", "-", "O", "n", "y", "x", "-", "u5373", "u51B7", "u71B1", "u76F4", "u98F2", "u6A5F">>,
     children |-> <<<<"O", "N", "Y", "X", "u6FFE", "u82AF", "1">>, <<"O", "N", "Y", "X", "u6FFE", "u82AF", "2">>>>],
    [key |-> <<"O", "N", "Y", "X", "u6FFE", "u82AF", "1">>,
     code |-> <<"1", "5", "9", "2">>, cycle |-> <<"1", "2">>,
     name |-> <<"O", "N", "Y", "X", "-", "u9223", "u6291", "u6B63", "u96FB", "u8377", " ", "E", "-", "P", "o", "s", "i", "t", "i", "v", "e", " ", "A", "k", " ", "F", "i", "l", "t", "e", "r">>,
     children |-> <<>>],
    [key |-> <<"O", "N", "Y", "X", "u6FFE", "u82AF", "2">>,
     code |-> <<"1", "5", "9", "1">>, cycle |-> <<"1", "2">>,
     name |-> <<"O", "N", "Y", "X", "-", "u6D3B", "u6027", "u78B3", "P", "H", " ", "C", "a", "r", "b", "o", "n", " ", "B", "l", "o", "c", "k", " ", "A", "k", " ", "F", "i", "l", "t", "e", "r">>,
     children |-> <<>>],
    [key |-> <<"C", "H", "P", "1", "0", "1">>,
     code |-> <<"1", "5", "8", "6">>, cycle |-> <<>>,
     name |-> <<"L", "I", "V", "I", "N", "G", "C", "A", "R", "E", "-", "C", "H", "P", "-", "1", "0", "1", "u5373", "u51B7", "u71B1", "u76F4", "u98F2", "u6A5F">>,
     children |-> <<<<"C", "H", "P", "1", "0", "1", "u6FFE", "u82AF", "1">>, <<"C", "H", "P", "1", "0", "1", "u6FFE", "u82AF", "2">>>>],
    [key |-> <<"C", "H", "P", "1", "0", "1", "u6FFE", "u82AF", "1">>,
     code |-> <<"1", "5", "9", "4">>, cycle |-> <<"1", "2">>,
     name |-> <<"C", "H", "P", "1", "0", "1", "-", "u9223", "u6291", "u6B63", "u96FB", "u8377", "E", "-", "P", "o", "s", "i", "t", "i", "v", "e", " ", "A", "k", " ", "F", "i", "l", "t", "e", "r">>,
     children |-> <<>>],
    [key |-> <<"C", "H", "P", "1", "0", "1", "u6FFE", "u82AF", "2">>,
     code |-> <<"1", "5", "9", "3">>, cycle |-> <<"1", "2">>,
     name |-> <<"C", "H", "P", "1", "0", "1", "-", "u6D3B", "u6027", "u78B3", "C", "a", "r", "b", "o", "n", " ", "B", "l", "o", "c", "k", " ", "A", "k", " ", "F", "i", "l", "t", "e", "r">>,
     children |-> <<>>],
    [key |-> <<"M", "F", "3", "3", "0">>,
     code |-> <<>>, cycle |-> <<>>,
     name |-> <<"M", "F", "3", "3", "0", " ", "u7D44", "u5408">>,
     children |-> <<<<"M", "F", "1", "1", "0">>, <<"M", "F", "2", "2", "0">>>>],
    [key |-> <<"M", "F", "1", "1", "0">>,
     code |-> <<"1", "1", "9", "2">>, cycle |-> <<"1", "2">>,
     name |-> <<"M", "F", "1", "1", "0", " ", "E", "V", "E", "R", "P", "O", "L", "L", "u5546", "u7528", "u9AD8", "u6D41", "u91CF", "u98F2", "u7528", "u6C34", "u904E", "u6FFE", "u7CFB", "u7D71">>,
     children |-> <<>>],
    [key |-> <<"M", "F", "2", "2", "0">>,
     code |-> <<"1", "1", "9", "3">>, cycle |-> <<"6">>,
     name |-> <<"M", "F", "2", "2", "0", " ", "E", "V", "E", "R", "P", "O", "L", "L", "u5546", "u7528", "u9AD8", "u6D41", "u91CF", "u6A39", "u8102", "u96E2", "u5B50", "u4EA4", "u63DB", "u7CFB", "u7D71">>,
     children |-> <<>>],
    [key |-> <<"D", "C", "3", "0", "0", "0">>,
     code |-> <<>>, cycle |-> <<>>,
     name |-> <<"D", "C", "3", "0", "0", "0", " ", "u7D44", "u5408">>,
     children |-> <<<<"D", "C", "2", "0", "0", "0">>, <<"D", "C", "1", "0", "0", "0">>>>],
    [key |-> <<"H", "S", "9", "9", "0">>,
     code |-> <<"1", "0", "0", "5">>, cycle |-> <<>>,
     name |-> <<"H", "S", "9", "9", "0", "u667A", "u6167", "u7BC0", "u80FD", "u6BBA", "u83CC", "u98F2", "u6C34", "u6A5F">>,
     children |-> <<>>],
    [key |-> <<"H", "M", "2", "9", "0">>,
     code |-> <<"1", "0", "8", "7">>, cycle |-> <<>>,
     name |-> <<"H", "M", "2", "9", "0", " ", "u76F4", "u7ACB", "u5F0F", "u51B0", "u6EAB", "u71B1", "u98F2", "u6C34", "u6A5F", "(", "u767D", "u8272", ")">>,
     children |-> <<>>],
    [key |-> <<"E", "P", "2", "9", "8">>,
     code |-> <<"1", "1", "1", "6">>, cycle |-> <<>>,
     name |-> <<"E", "V", "E", "R", "P", "O", "L", "L", "-", " ", "E", "V", "B", "-", "2", "9", "8", " ", "u667A", "u80FD", "u96D9", "u6EAB", "u98F2", "u6C34", "u6A5F">>,
     children |-> <<>>],
    [key |-> <<"H", "M", "1", "9", "0">>,
     code |-> <<"1", "0", "8", "9">>, cycle |-> <<>>,
     name |-> <<"H", "M", "1", "9", "0", " ", "u684C", "u4E0A", "u578B", "u51B0", "u51B7", "u71B1", "u98F2", "u6C34", "u6A5F", "(", "u767D", ")">>,
     children |-> <<>>],
    [key |-> <<"E", "P", "3", "9", "8">>,
     code |-> <<"1", "6", "4", "9">>, cycle |-> <<>>,
     name |-> <<"E", "V", "B", "-", "3", "9", "8", " ", "u667A", "u80FD", "u6AE5", "u4E0B", "u578B", "u4E09", "u6EAB", "U", "V", "u89F8", "u63A7", "u98F2", "u6C34", "u6A5F">>,
     children |-> <<>>],
    [key |-> <<"E", "P", "1", "6", "8", "P", "L", "U", "S">>,
     code |-> <<"1", "6", "5", "0">>, cycle |-> <<>>,
     name |-> <<"E", "P", "-", "1", "6", "8", "P", "L", "U", "S", "-", "u5EDA", "u4E0B", "u578B", "u8ABF", "u6EAB", "u7121", "u58D3", "u98F2", "u6C34", "u6A5F">>,
     children |-> <<>>],
    [key |-> <<"M", "3">>,
     code |-> <<"1", "6", "1", "3">>, cycle |-> <<>>,
     name |-> <<"H", "S", "-", "M", "3", " ", "u6AE5", "u4E0B", "u578B", "u51B0", "u6EAB", "u71B1", "u98F2", "u6C34", "u6A5F">>,
     children |-> <<>>],
    [key |-> <<"u5341", "u79D2", "u6A5F">>,
     code |-> <<"1", "1", "9", "4">>, cycle |-> <<>>,
     name |-> <<"1", "0", "S", "M", " ", "E", "V", "E", "R", "P", "O", "L", "L", "-", "u5341", "u79D2", "u6A5F", "(", "O", "Z", "O", "N", "E", "u6D3B", "u6C27", ")">>,
     children |-> <<>>],
    [key |-> <<"U", "V", "C", "-", "9", "0", "2">>,
     code |-> <<"1", "2", "6", "7">>, cycle |-> <<>>,
     name |-> <<"U", "V", "C", "-", "9", "0", "2", "u6EC5", "u83CC", "u8A2D", "u5099">>,
     children |-> <<>>],
    [key |-> <<"M", "A", "X", "T", "E", "C">>,
     code |-> <<"1", "0", "0", "3">>, cycle |-> <<>>,
     name |-> <<"M", "a", "x", "t", "e", "c", " ", "X", "-", "6", " ", "u7D2B", "u5916", "u7DDA", "u6BBA", "u83CC", "u71C8", "u7D44">>,
     children |-> <<>>],
    [key |-> <<"u58D3", "u529B", "u6876", "3", "G">>,
     code |-> <<"1", "2", "0", "6">>, cycle |-> <<>>,
     name |-> <<"u58D3", "u529B", "u6876", "uFF08", "3", "L", ")">>,
     children |-> <<>>],
    [key |-> <<"u58D3", "u529B", "u6876", "1", ".", "5", "G">>,
     code |-> <<"1", "4", "7", "4">>, cycle |-> <<>>,
     name |-> <<"u58D3", "u529B", "u6876", "uFF08", "1", ".", "5", "l", "uFF09">>,
     children |-> <<>>],
    [key |-> <<"u9F8D", "u982D">>,
     code |-> <<"1", "1", "3", "8">>, cycle |-> <<>>,
     name |-> <<"E", "V", "E", "R", "P", "U", "R", "E", "-", "T", "O", "P", " ", "u539F", "u88DD", "u6C34", "u9F8D", "u982D">>,
     children |-> <<>>],
    [key |-> <<"4", "G", "U", "V">>,
     code |-> <<"1", "1", "9", "9">>, cycle |-> <<"1", "2">>,
     name |-> <<"P", "H", "I", "L", "I", "P", "S", "-", "U", "V", "-", "S", "E", "T", " ", "u7D2B", "u5916", "u7DDA", "u6BBA", "u83CC", "u71C8", "u7D44", "-", "4", "G">>,
     children |-> <<>>],
    [key |-> <<"6", "G", "U", "V">>,
     code |-> <<"1", "0", "1", "5">>, cycle |-> <<"1", "2">>,
     name |-> <<"P", "H", "I", "L", "I", "P", "S", "-", "U", "V", "-", "S", "E", "T", " ", "u7D2B", "u5916", "u7DDA", "u6BBA", "u83CC", "u71C8", "u7D44", "-", "6", "G", "/", "2", "5", "W">>,
     children |-> <<>>],
    [key |-> <<"1", "G", "U", "V">>,
     code |-> <<"1", "0", "9", "9">>, cycle |-> <<"1", "2">>,
     name |-> <<"P", "H", "I", "L", "I", "P", "S", "-", "U", "V", "-", "S", "E", "T", " ", "u7D2B", "u5916", "u7DDA", "u6BBA", "u83CC", "u71C8", "u7D44", "-", "1", "G", "/", "6", "W">>,
     children |-> <<>>],
    [key |-> <<"1", "2", "G", "U", "V">>,
     code |-> <<"1", "0", "1", "4">>, cycle |-> <<"1", "2">>,
     name |-> <<"P", "H", "I", "L", "I", "P", "S", "-", "U", "V", "-", "S", "E", "T", " ", "u7D2B", "u5916", "u7DDA", "u6BBA", "u83CC", "u71C8", "u7D44", "-", "1", "2", "G", "/", "4", "0", "W">>,
     children |-> <<>>],
    [key |-> <<"2", "G", "U", "V">>,
     code |-> <<"1", "0", "1", "6">>, cycle |-> <<"1", "2">>,
     name |-> <<"P", "H", "I", "L", "I", "P", "S", "-", "U", "V", "-", "S", "E", "T", " ", "u7D2B", "u5916", "u7DDA", "u6BBA", "u83CC", "u71C8", "u7D44", "-", "2", "G", "/", "1", "6", "W">>,
     children |-> <<>>],
    [key |-> <<"P", "H", "I", "L", "I", "P", "S", " ", "2", "G", "/", "1", "6", "W", " ", "u6BBA", "u83CC", "u71C8">>,
     code |-> <<"1", "0", "1", "6">>, cycle |-> <<"1", "2">>,
     name |-> <<"P", "H", "I", "L", "I", "P", "S", " ", "2", "G", "/", "1", "6", "W", " ", "u6BBA", "u83CC", "u71C8">>,
     children |-> <<>>],
    [key |-> <<"P", "H", "I", "L", "L", "I", "P", "S", " ", "2", "G", "/", "1", "6", "W", " ", "u6BBA", "u83CC", "u71C8">>,
     code |-> <<"1", "0", "1", "6">>, cycle |-> <<"1", "2">>,
     name |-> <<"P", "H", "I", "L", "I", "P", "S", " ", "2", "G", "/", "1", "6", "W", " ", "u6BBA", "u83CC", "u71C8">>,
     children |-> <<>>],
    [key |-> <<"P", "H", "I", "L", "I", "P", "S", "2", "G", "1", "6", "W">>,
     code |-> <<"1", "0", "1", "6">>, cycle |-> <<"1", "2">>,
     name |-> <<"P", "H", "I", "L", "I", "P", "S", " ", "2", "G", "/", "1", "6", "W", " ", "u6BBA", "u83CC", "u71C8">>,
     children |-> <<>>],
    [key |-> <<"P", "H", "I", "L", "L", "I", "P", "S", "2", "G", "1", "6", "W">>,
     code |-> <<"1", "0", "1", "6">>, cycle |-> <<"1", "2">>,
     name |-> <<"P", "H", "I", "L", "I", "P", "S", " ", "2", "G", "/", "1", "6", "W", " ", "u6BBA", "u83CC", "u71C8">>,
     children |-> <<>>],
    [key |-> <<"2", "G", "/", "1", "6", "W", " ", "u6BBA", "u83CC", "u71C8">>,
     code |-> <<"1", "0", "1", "6">>, cycle |-> <<"1", "2">>,
     name |-> <<"P", "H", "I", "L", "I", "P", "S", " ", "2", "G", "/", "1", "6", "W", " ", "u6BBA", "u83CC", "u71C8">>,
     children |-> <<>>],
    [key |-> <<"2", "G", "U", "V", "1", "6", "W">>,
     code |-> <<"1", "0", "1", "6">>, cycle |-> <<"1", "2">>,
     name |-> <<"P", "H", "I", "L", "I", "P", "S", " ", "2", "G", "/", "1", "6", "W", " ", "u6BBA", "u83CC", "u71C8">>,
     children |-> <<>>],
    [key |-> <<"P", "H", "I", "L", "I", "P", "S", " ", "2", "G", " ", "U", "V", " ", "u6BBA", "u83CC", "u71C8">>,
     code |-> <<"1", "0", "1", "6">>, cycle |-> <<"1", "2">>,
     name |-> <<"P", "H", "I", "L", "I", "P", "S", " ", "2", "G", "/", "1", "6", "W", " ", "u6BBA", "u83CC", "u71C8">>,
     children |-> <<>>],
    [key |-> <<"P", "H", "I", "L", "L", "I", "P", "S", " ", "2", "G", " ", "U", "V", " ", "u6BBA", "u83CC", "u71C8">>,
     code |-> <<"1", "0", "1", "6">>, cycle |-> <<"1", "2">>,
     name |-> <<"P", "H", "I", "L", "I", "P", "S", " ", "2", "G", "/", "1", "6", "W", " ", "u6BBA", "u83CC", "u71C8">>,
     children |-> <<>>],
    [key |-> <<"U", "F">>,
     code |-> <<"1", "4", "3", "9">>, cycle |-> <<"1", "2">>,
     name |-> <<"M", "A", "X", "T", "E", "C", "-", "U", "F", "u8D85", "u6FFE", "u819C", "u6FFE", "u82AF">>,
     children |-> <<>>],
    [key |-> <<"P", "B", "S", "4", "0", "0">>,
     code |-> <<"1", "1", "8", "3">>, cycle |-> <<"1", "2">>,
     name |-> <<"E", "V", "E", "R", "P", "U", "R", "E", "-", "P", "B", "S", "4", "0", "0", "u76F4", "u98F2", "u904E", "u6FFE", "u7CFB", "u7D71">>,
     children |-> <<>>],
    [key |-> <<"H", "1", "0", "4">>,
     code |-> <<"1", "1", "8", "2">>, cycle |-> <<"1", "2">>,
     name |-> <<"E", "V", "E", "R", "P", "U", "R", "E", "-", "H", "1", "0", "4", "u76F4", "u98F2", "u904E", "u6FFE", "u7CFB", "u7D71">>,
     children |-> <<>>],
    [key |-> <<"E", "F", "6", "0", "0", "0">>,
     code |-> <<"1", "2", "1", "7">>, cycle |-> <<"1", "2">>,
     name |-> <<"E", "V", "E", "R", "P", "U", "R", "E", "-", "E", "F", "6", "0", "0", "0", "u76F4", "u98F2", "u904E", "u6FFE", "u7CFB", "u7D71">>,
     children |-> <<>>],
    [key |-> <<"F", "H", "3", "0", "1">>,
     code |-> <<"1", "2", "1", "4">>, cycle |-> <<"1", "2">>,
     name |-> <<"E", "V", "E", "R", "P", "O", "L", "L", "-", "F", "H", "3", "0", "1", "u5168", "u5C4B", "u904E", "u6FFE", "u7CFB", "u7D71">>,
     children |-> <<>>],
    [key |-> <<"F", "H", "5", "0", "0">>,
     code |-> <<"1", "3", "3", "9">>, cycle |-> <<"1", "2">>,
     name |-> <<"E", "V", "E", "R", "P", "O", "L", "L", "-", "F", "H", "5", "0", "0", "u4E2D", "u592E", "u904E", "u6FFE", "u7CFB", "u7D71">>,
     children |-> <<>>],
    [key |-> <<"F", "H", "2", "3", "0">>,
     code |-> <<"1", "5", "6", "3">>, cycle |-> <<"1", "2">>,
     name |-> <<"E", "V", "E", "R", "P", "O", "L", "L", "-", "F", "H", "2", "3", "0", " ", "u5168", "u5C4B", "u904E", "u6FFE", "u6DE8", "u7CFB", "u7D71">>,
     children |-> <<>>],
    [key |-> <<"F", "H", "2", "0", "0">>,
     code |-> <<"1", "5", "7", "8">>, cycle |-> <<"1", "2">>,
     name |-> <<"E", "V", "E", "R", "P", "O", "L", "L", "-", "F", "H", "2", "0", "0", "u5168", "u5C4B", "u904E", "u6FFE", "u6DE8", "u7CFB", "u7D71">>,
     children |-> <<>>],
    [key |-> <<"D", "C", "2", "0", "0", "0">>,
     code |-> <<"1", "1", "1", "9">>, cycle |-> <<"6">>,
     name |-> <<"E", "V", "E", "R", "P", "O", "L", "L", "-", "D", "C", "2", "0", "0", "0", " ", "u82F1", "u570B", "u7121", "u7D0D", "u96E2", "u5B50", "u4EA4", "u63DB", "u6A39", "u8102", "u7CFB", "u7D71">>,
     children |-> <<>>],
    [key |-> <<"D", "C", "1", "0", "0", "0">>,
     code |-> <<"1", "1", "2", "0">>, cycle |-> <<"1", "2">>,
     name |-> <<"E", "V", "E", "R", "P", "O", "L", "L", "-", "D", "C", "1", "0", "0", "0", " ", "u55AE", "u9053", "u96D9", "u6548", "u8907", "u5408", "u5F0F", "u7CFB", "u7D71">>,
     children |-> <<>>],
    [key |-> <<"A", "H", "P", "1", "5", "0">>,
     code |-> <<"1", "1", "3", "7">>, cycle |-> <<"1", "2">>,
     name |-> <<"E", "V", "E", "R", "P", "O", "L", "L", "-", "A", "H", "P", "1", "5", "0", "u4E2D", "u592E", "u904E", "u6FFE", "u7CFB", "u7D71">>,
     children |-> <<>>],
    [key |-> <<"1", "0", "u540B", "P", "P">>,
     code |-> <<"1", "1", "0", "1">>, cycle |-> <<"6">>,
     name |-> <<"1", "0", "u540B", "-", "P", "P", "u904E", "u6FFE", "u68C9">>,
     children |-> <<>>],
    [key |-> <<"2", "0", "u540B", "P", "P">>,
     code |-> <<"1", "1", "0", "0">>, cycle |-> <<"6">>,
     name |-> <<"2", "0", "u540B", "-", "P", "P", "u904E", "u6FFE", "u68C9">>,
     children |-> <<>>],
    [key |-> <<"T", "3", "3">>,
     code |-> <<"1", "0", "1", "7">>, cycle |-> <<"1", "2">>,
     name |-> <<"F", "i", "l", "t", "e", "r", " ", "T", "3", "3", " ", "S", "m", "a", "l", "l", "u6FFE", "u82AF">>,
     children |-> <<>>],
    [key |-> <<"C", "L", "A", "R", "I", "S", "-", "X", "L">>,
     code |-> <<"1", "6", "8", "2">>, cycle |-> <<"1", "2">>,
     name |-> <<"E", "V", "E", "R", "P", "U", "R", "E", "-", "C", "L", "A", "R", "I", "S", "-", "X", "L">>,
     children |-> <<>>],
    [key |-> <<"P", "W", "C", "E", "1", "6", "F", "1", "0">>,
     code |-> <<"1", "5", "1", "2">>, cycle |-> <<>>,
     name |-> <<"E", "V", "E", "R", "P", "U", "R", "E", "u8EDF", "u6C34", "u7CFB", "u7D71", "P", "W", "C", "E", "1", "6", "F", "1", "0">>,
     children |-> <<>>],
    [key |-> <<"R", "O", "1", "5", "0", "G">>,
     code |-> <<"1", "0", "1", "9">>, cycle |-> <<"6">>,
     name |-> <<"F", "i", "l", "t", "e", "r", " ", "P", "P", "1", "u", "m", " ", "1", "0", "\"", "u6FFE", "u82AF">>,
     children |-> <<>>],
    [key |-> <<"R", "O", "1", "0", "0", "G">>,
     code |-> <<"1", "0", "1", "9">>, cycle |-> <<"6">>,
     name |-> <<"F", "i", "l", "t", "e", "r", " ", "P", "P", "1", "u", "m", " ", "1", "0", "\"", "u6FFE", "u82AF">>,
     children |-> <<>>],
    [key |-> <<"R", "O", "4", "0", "0", "G">>,
     code |-> <<"1", "0", "1", "9">>, cycle |-> <<"6">>,
     name |-> <<"F", "i", "l", "t", "e", "r", " ", "P", "P", "1", "u", "m", " ", "1", "0", "\"", "u6FFE", "u82AF">>,
     children |-> <<>>],
    [key |-> <<"u96D9", "u982D", "M", "C">>,
     code |-> <<"1", "2", "4", "9">>, cycle |-> <<>>,
     name |-> <<"E", "V", "E", "R", "P", "U", "R", "E", "-", "Q", "C", "7", "1", "-", "T", "W", "I", "N", "-", "M", "C", "2">>,
     children |-> <<>>],
    [key |-> <<"u96D9", "u982D", "I", "2", "0", "0", "0">>,
     code |-> <<"1", "2", "2", "7">>, cycle |-> <<>>,
     name |-> <<"E", "V", "E", "R", "P", "U", "R", "E", "-", "Q", "C", "7", "1", "-", "T", "W", "I", "N", "-", "I", "2", "0", "0", "0", "2">>,
     children |-> <<>>],
    [key |-> <<"R", "-", "0", "0", "1">>,
     code |-> <<"1", "3", "5", "0">>, cycle |-> <<"1", "2">>,
     name |-> <<"R", "-", "0", "0", "1", "u591A", "u6298", "u5F0F", "u96D9", "u6548", "u5FA9", "u5408", "u6FFE", "u82AF">>,
     children |-> <<>>],
    [key |-> <<"R", "-", "0", "0", "2">>,
     code |-> <<"1", "3", "5", "1">>, cycle |-> <<"2", "4">>,
     name |-> <<"R", "-", "0", "0", "2", "u9AD8", "u6548", "u6297", "u6C61", "R", "O", "u819C">>,
     children |-> <<>>],
    [key |-> <<"M", "C", "2">>,
     code |-> <<"1", "1", "4", "6">>, cycle |-> <<"1", "2">>,
     name |-> <<"E", "V", "E", "R", "P", "U", "R", "E", "-", "M", "C", "2", " ", "u6FFE", "u82AF">>,
     children |-> <<>>]
    >>

\* catalog.get(key), for a key of the catalog
CatalogGet(key) ==
    LET data == catalog[CHOOSE i \in 1..Len(catalog) : catalog[i].key = key]
    IN [code |-> data.code, name |-> data.name, cycle |-> data.cycle]

\* results with each entry of found appended unless already in it
RECURSIVE AppendNew(_, _)
AppendNew(results, found) ==
    IF found = <<>> THEN results
    ELSE AppendNew(IF \E i \in 1..Len(results) : results[i] = Head(found)
                   THEN results ELSE Append(results, Head(found)),
                   Tail(found))

\* _lookup_products, first step over the entries lo..hi of the catalog in
\* their order: the keys contained in lookup, a kit giving its children and
\* not itself
RECURSIVE ExactFound(_, _, _)
ExactFound(lookup, lo, hi) ==
    IF lo > hi THEN <<>>
    ELSE IF lo < hi
    THEN ExactFound(lookup, lo, (lo + hi) \div 2) \o ExactFound(lookup, (lo + hi) \div 2 + 1, hi)
    ELSE IF ~Contains(lookup, catalog[lo].key) THEN <<>>
    ELSE IF catalog[lo].children # <<>>
    THEN [j \in 1..Len(catalog[lo].children) |-> CatalogGet(catalog[lo].children[j])]
    ELSE <<CatalogGet(catalog[lo].key)>>

ExactMatches(lookup) == AppendNew(<<>>, ExactFound(lookup, 1, Len(catalog)))

\* name_norm of the third step
NameNorm(data) == Without(Without(Upper(data.name), " "), "-")

\* _lookup_products, third step over the entries lo..hi: entries without
\* children whose name holds the lookup or is held by it, blanks and dashes
\* dropped
RECURSIVE NameFound(_, _, _)
NameFound(normalized_lookup, lo, hi) ==
    IF lo > hi THEN <<>>
    ELSE IF lo < hi
    THEN NameFound(normalized_lookup, lo, (lo + hi) \div 2) \o
         NameFound(normalized_lookup, (lo + hi) \div 2 + 1, hi)
    ELSE IF /\ catalog[lo].children = <<>>
            /\ normalized_lookup # <<>>
            /\ \/ Contains(NameNorm(catalog[lo]), normalized_lookup)
               \/ Contains(normalized_lookup, NameNorm(catalog[lo]))
    THEN <<CatalogGet(catalog[lo].key)>>
    ELSE <<>>

NameMatches(normalized_lookup) ==
    AppendNew(<<>>, NameFound(normalized_lookup, 1, Len(catalog)))

\* _lookup_products after its first step: exact when it found anything, else
\* the tap, else the match on product names
LaterMatches(exact, lookup) ==
    IF exact # <<>> THEN exact
    ELSE IF Contains(lookup, <<"u9F8D", "u982D">>) THEN <<CatalogGet(<<"u9F8D", "u982D">>)>>
    ELSE NameMatches(Without(Without(lookup, " "), "-"))

_lookup_products(plan_type) ==
    IF plan_type = <<>> THEN <<>>
    ELSE LaterMatches(ExactMatches(Upper(plan_type)), Upper(plan_type))

\* _normalize_cycle: int of the stripped text, None (0 here) when it is empty
\* or no number
_normalize_cycle(value) ==
    LET val == Strip(value)
    IN IF val # <<>> /\ \A i \in 1..Len(val) : IsDigit(val[i]) THEN DigitsValue(val) ELSE 0

\* the positions of token where \*\d+ matches
StarRuns(token) == {i \in 1..(Len(token) - 1) : token[i] = "*" /\ IsDigit(token[i + 1])}

\* re.search(r"\*(\d+)", token): the quantity, 1 without a match
TokenQty(token) ==
    IF StarRuns(token) = {} THEN 1
    ELSE LET i == CHOOSE k \in StarRuns(token) : \A j \in StarRuns(token) : k <= j
         IN DigitsValue(SubSeq(token, i + 1, RunEnd(token, i + 1, Digits)))

\* re.sub(r"\*\d+", "", token)
RECURSIVE WithoutStarRuns(_)
WithoutStarRuns(token) ==
    IF StarRuns(token) = {} THEN token
    ELSE LET i == CHOOSE k \in StarRuns(token) : \A j \in StarRuns(token) : k <= j
         IN SubSeq(token, 1, i - 1) \o
            WithoutStarRuns(SubSeq(token, RunEnd(token, i + 1, Digits) + 1, Len(token)))

\* the lines of one token: one per catalog entry it resolves to
MappedLines(mapped_list, name, qty) ==
    [j \in 1..Len(mapped_list) |->
        [name  |-> IF mapped_list[j].name # <<>> THEN mapped_list[j].name ELSE name,
         code  |-> mapped_list[j].code,
         cycle |-> _normalize_cycle(mapped_list[j].cycle),
         qty   |-> qty]]

TokenItems(token) ==
    MappedLines(_lookup_products(Strip(WithoutStarRuns(token))),
                Strip(WithoutStarRuns(token)), TokenQty(token))

\* the items list of _parse_install_items before the duplicates are dropped
RECURSIVE ItemsOf(_)
ItemsOf(tokens) ==
    IF tokens = <<>> THEN <<>> ELSE TokenItems(Head(tokens)) \o ItemsOf(Tail(tokens))

ResolvedItems(text) ==
    LET pieces == SplitOn(text, {"+", ",", "uFF0C", "uFF1B", ";"})
        tokens == SelectSeq([i \in 1..Len(pieces) |-> Strip(pieces[i])], LAMBDA t : t # <<>>)
    IN IF text = <<>> THEN <<>> ELSE ItemsOf(tokens)

\* the key under which a line counts as seen
DedupeKey(it) ==
    <<Strip(it.code), Strip(it.name),
      IF it.cycle = 0 THEN <<>> ELSE NatStr(it.cycle),
      IF it.qty = 0 THEN <<"1">> ELSE NatStr(it.qty)>>

\* the items with nothing dropped
KeepEveryItem(items, seen) == items

\* the loop over items that keeps the first line of every key
RECURSIVE Deduped(_, _)
Deduped(items, seen) ==
    IF items = <<>> THEN <<>>
    ELSE IF DedupeKey(Head(items)) \in seen THEN Deduped(Tail(items), seen)
    ELSE <<Head(items)>> \o Deduped(Tail(items), seen \cup {DedupeKey(Head(items))})

MaxTokens == 2

\* product names as they are typed: a kit, one of its parts, two keys of one
\* entry, a name found only through the product names, an unknown name
BomNames ==
    {<<"R", "O", "9", "0", "0", "S">>, <<"R", "-", "0", "0", "2">>,
     <<"R", "O", "1", "5", "0", "G">>, <<"r", "o", "1", "0", "0", "g">>,
     <<"U", "V", "C", "9", "0", "2">>, <<"X", "Y", "Z">>}

BomQuantities == {<<>>, <<"*", "1">>, <<"*", "2">>}

BomSeparators == {<<"+">>, <<"uFF0C", " ">>}

RECURSIVE JoinTokens(_)
JoinTokens(parts) ==
    IF parts = <<>> THEN <<>>
    ELSE IF Len(parts) = 1 THEN parts[1].name \o parts[1].qty
    ELSE parts[1].name \o parts[1].qty \o parts[1].sep \o JoinTokens(Tail(parts))

BomTexts ==
    {JoinTokens(parts) :
        parts \in SeqsUpTo([name : BomNames, qty : BomQuantities, sep : BomSeparators],
                           MaxTokens)}

BomInit ==
    /\ bomText \in BomTexts
    /\ bomItems = <<>>
    /\ bomOut = <<>>
    /\ bomPc = "text"

\* _parse_install_items(text, plan_type)
ParseInstallItems ==
    /\ bomPc = "text"
    /\ bomItems' = ResolvedItems(bomText)
    /\ bomOut' = Deduped(bomItems', {})
    /\ bomPc' = "parsed"
    /\ UNCHANGED <<bomText, notBom>>

BomNext == ParseInstallItems

BomIdle == bomText = <<>> /\ bomItems = <<>> /\ bomOut = <<>> /\ bomPc = "idle"

(***************************************************************************)
(* Customer briefing text: customer_builder.parse_customer_text            *)
(***************************************************************************)
\* s[i], or "" outside s
At(s, i) == IF i \in 1..Len(s) THEN s[i] ELSE ""

SetMin(S) == CHOOSE x \in S : \A y \in S : x <= y

SetMax(S) == CHOOSE x \in S : \A y \in S : x >= y

\* s.find(c) + 1: the first position of c in s, 0 when there is none
IndexOf(s, c) ==
    IF \E i \in 1..Len(s) : s[i] = c THEN SetMin({i \in 1..Len(s) : s[i] = c}) ELSE 0

\* re.sub(r"\s+", "", value)
NoSpace(s) == SelectSeq(s, LAMBDA c : ~IsSpace(c))

\* value or default, for texts
TextOr(value, default) == IF value # <<>> THEN value ELSE default

\* None of a configured entry
None == [has |-> FALSE]

\* CONFIG["paymentMethods"], lines 156-178: the seven objects, each under the
\* key that is its label
PaymentObjects ==
    <<[label |-> <<"u4E00", "u6B21", "u6027", "u5168", "u7E73">>,
       id |-> <<"0", "1">>],
      [label |-> <<"u4FE1", "u7528", "u5361", "u5206", "u671F">>,
       id |-> <<"0", "2">>],
      [label |-> <<"u9280", "u884C", "u5361", "u81EA", "u52D5", "u8F49", "u8CEC">>,
       id |-> <<"0", "3">>],
      [label |-> <<"u5B63", "u5EA6", "u6536", "u8CBB">>,
       id |-> <<"0", "4">>],
      [label |-> <<"u5E74", "u5EA6", "u6536", "u8CBB">>,
       id |-> <<"0", "5">>],
      [label |-> <<"u8A66", "u7528">>,
       id |-> <<"0", "6">>],
      [label |-> <<"u6BCF", "u6708", "u6536", "u8CBB">>,
       id |-> <<"0", "7">>]>>

_PAYMENT_ALIASES ==
    <<[alias |-> <<"u4E00", "u6B21", "u6027", "u4ED8", "u6B3E">>,
       canonical |-> <<"u4E00", "u6B21", "u6027", "u5168", "u7E73">>],
      [alias |-> <<"u4E00", "u6B21", "u6027", "u7E73", "u4EA4">>,
       canonical |-> <<"u4E00", "u6B21", "u6027", "u5168", "u7E73">>],
      [alias |-> <<"u4E00", "u6B21", "u6027", "u5168", "u6B3E">>,
       canonical |-> <<"u4E00", "u6B21", "u6027", "u5168", "u7E73">>],
      [alias |-> <<"u5168", "u984D", "u4ED8", "u6B3E">>,
       canonical |-> <<"u4E00", "u6B21", "u6027", "u5168", "u7E73">>],
      [alias |-> <<"u5168", "u984D", "u7E73", "u4EA4">>,
       canonical |-> <<"u4E00", "u6B21", "u6027", "u5168", "u7E73">>],
      [alias |-> <<"u5B63", "u5EA6", "u6708", "u8CBB">>,
       canonical |-> <<"u5B63", "u5EA6", "u6536", "u8CBB">>],
      [alias |-> <<"u5B63", "u5EA6", "u4ED8", "u6B3E">>,
       canonical |-> <<"u5B63", "u5EA6", "u6536", "u8CBB">>],
      [alias |-> <<"u5B63", "u5EA6", "u7E73", "u8CBB">>,
       canonical |-> <<"u5B63", "u5EA6", "u6536", "u8CBB">>],
      [alias |-> <<"u5B63", "u4ED8">>,
       canonical |-> <<"u5B63", "u5EA6", "u6536", "u8CBB">>],
      [alias |-> <<"u5E74", "u5EA6", "u6708", "u8CBB">>,
       canonical |-> <<"u5E74", "u5EA6", "u6536", "u8CBB">>],
      [alias |-> <<"u5E74", "u5EA6", "u4ED8", "u6B3E">>,
       canonical |-> <<"u5E74", "u5EA6", "u6536", "u8CBB">>],
      [alias |-> <<"u5E74", "u5EA6", "u7E73", "u8CBB">>,
       canonical |-> <<"u5E74", "u5EA6", "u6536", "u8CBB">>],
      [alias |-> <<"u5E74", "u4ED8">>,
       canonical |-> <<"u5E74", "u5EA6", "u6536", "u8CBB">>],
      [alias |-> <<"u6708", "u8CBB">>,
       canonical |-> <<"u6BCF", "u6708", "u6536", "u8CBB">>],
      [alias |-> <<"u6BCF", "u6708", "u6708", "u8CBB">>,
       canonical |-> <<"u6BCF", "u6708", "u6536", "u8CBB">>],
      [alias |-> <<"u6BCF", "u6708", "u4ED8", "u6B3E">>,
       canonical |-> <<"u6BCF", "u6708", "u6536", "u8CBB">>],
      [alias |-> <<"u6BCF", "u6708", "u7E73", "u8CBB">>,
       canonical |-> <<"u6BCF", "u6708", "u6536", "u8CBB">>],
      [alias |-> <<"u6708", "u4ED8">>,
       canonical |-> <<"u6BCF", "u6708", "u6536", "u8CBB">>],
      [alias |-> <<"u9280", "u884C", "u8F49", "u5E33">>,
       canonical |-> <<"u9280", "u884C", "u5361", "u81EA", "u52D5", "u8F49", "u8CEC">>],
      [alias |-> <<"u9280", "u884C", "u532F", "u6B3E">>,
       canonical |-> <<"u9280", "u884C", "u5361", "u81EA", "u52D5", "u8F49", "u8CEC">>],
      [alias |-> <<"u81EA", "u52D5", "u6263", "u6B3E">>,
       canonical |-> <<"u9280", "u884C", "u5361", "u81EA", "u52D5", "u8F49", "u8CEC">>],
      [alias |-> <<"u9280", "u884C", "u5361", "u81EA", "u52D5", "u6263", "u6B3E">>,
       canonical |-> <<"u9280", "u884C", "u5361", "u81EA", "u52D5", "u8F49", "u8CEC">>],
      [alias |-> <<"u8F49", "u5E33">>,
       canonical |-> <<"u9280", "u884C", "u5361", "u81EA", "u52D5", "u8F49", "u8CEC">>],
      [alias |-> <<"u8F49", "u8CEC">>,
       canonical |-> <<"u9280", "u884C", "u5361", "u81EA", "u52D5", "u8F49", "u8CEC">>],
      [alias |-> <<"u4FE1", "u7528", "u5361">>,
       canonical |-> <<"u4FE1", "u7528", "u5361", "u5206", "u671F">>],
      [alias |-> <<"u4FE1", "u7528", "u5361", "u4ED8", "u6B3E">>,
       canonical |-> <<"u4FE1", "u7528", "u5361", "u5206", "u671F">>],
      [alias |-> <<"u4FE1", "u7528", "u5361", "u5237", "u5361">>,
       canonical |-> <<"u4FE1", "u7528", "u5361", "u5206", "u671F">>],
      [alias |-> <<"u4FE1", "u7528", "u5361", "u4ED8", "u8CBB">>,
       canonical |-> <<"u4FE1", "u7528", "u5361", "u5206", "u671F">>],
      [alias |-> <<"u4FE1", "u7528", "u5361", "u5206", "u671F", "u4ED8", "u6B3E">>,
       canonical |-> <<"u4FE1", "u7528", "u5361", "u5206", "u671F">>],
      [alias |-> <<"u8A66", "u7528", "u671F">>,
       canonical |-> <<"u8A66", "u7528">>],
      [alias |-> <<"u514D", "u8CBB", "u8A66", "u7528">>,
       canonical |-> <<"u8A66", "u7528">>]>>

LABEL_MAP ==
    <<[label |-> <<"u5BA2", "u6236", "u540D", "u7A31">>, key |-> "customerName"],
      [label |-> <<"u5BA2", "u6236", "u7DE8", "u78BC">>, key |-> "customerCode"],
      [label |-> <<"u806F", "u7E6B", "u96FB", "u8A71">>, key |-> "contactPhone"],
      [label |-> <<"u76EE", "u524D", "u4ED8", "u8CBB", "u65B9", "u5F0F">>, key |-> "paymentMethod"],
      [label |-> <<"u5B89", "u88DD", "u6642", "u9593">>, key |-> "installTime"],
      [label |-> <<"u5B89", "u88DD", "u5167", "u5BB9">>, key |-> "installContent"],
      [label |-> <<"u65B9", "u6848", "u985E", "u578B">>, key |-> "installContent"],
      [label |-> <<"u7E3D", "u91D1", "u984D">>, key |-> "totalAmount"],
      [label |-> <<"u806F", "u7D61", "u5730", "u5740">>, key |-> "address"],
      [label |-> <<"u5B89", "u88DD", "u5730", "u5740">>, key |-> "address"],
      [label |-> <<"u88DD", "u5730", "u5740">>, key |-> "address"],
      [label |-> <<"u5730", "u5740">>, key |-> "address"],
      [label |-> <<"u4F4F", "u5740">>, key |-> "address"],
      [label |-> <<"u4F4D", "u7F6E">>, key |-> "address"],
      [label |-> <<"u5B89", "u88DD", "u4F4D", "u7F6E">>, key |-> "address"],
      [label |-> <<"u806F", "u7D61", "u4F4D", "u7F6E">>, key |-> "address"],
      [label |-> <<"u806F", "u7E6B", "u5730", "u5740">>, key |-> "address"],
      [label |-> <<"u5730", "u9EDE">>, key |-> "address"],
      [label |-> <<"u5099", "u8A3B">>, key |-> "remark"],
      [label |-> <<"u5099", "u6CE8">>, key |-> "remark"],
      [label |-> <<"u5BA2", "u6236", "u5206", "u985E">>, key |-> "customerCategory"],
      [label |-> <<"u4ED8", "u6B3E", "u65B9", "u5F0F">>, key |-> "paymentMethod"],
      [label |-> <<"u4F7F", "u7528", "u65B9", "u5F0F">>, key |-> "usageMode"],
      [label |-> <<"u6708", "u8CBB", "u91D1", "u984D">>, key |-> "monthlyFee"],
      [label |-> <<"u6309", "u91D1">>, key |-> "deposit"],
      [label |-> <<"u9810", "u7E73", "u91D1">>, key |-> "prepay"],
      [label |-> <<"u8CA0", "u8CAC", "u4EBA">>, key |-> "ownerHint"],
      [label |-> <<"u92B7", "u552E">>, key |-> "ownerHint"],
      [label |-> <<"u9500", "u552E">>, key |-> "ownerHint"]>>

\* CONFIG["saleAreas"]
saleAreas ==
    <<[label |-> <<"u6FB3", "u9580", "u5CF6">>, id |-> <<"1", "4", "8", "2", "6", "3", "9", "8", "3", "0", "4", "6", "0", "3", "9", "9", "6", "1", "8">>, code |-> <<"0", "0", "1">>,
       keywords |-> <<<<"u6FB3", "u9580">>, <<"u6FB3", "u9580", "u5CF6">>, <<"m", "a", "c", "a", "u">>, <<"m", "a", "c", "a", "o">>>>],
      [label |-> <<"u6C39", "u4ED4">>, id |-> <<"1", "4", "8", "2", "6", "3", "9", "9", "4", "2", "1", "2", "9", "5", "4", "9", "3", "1", "3">>, code |-> <<"0", "0", "2">>,
       keywords |-> <<<<"u6C39", "u4ED4">>, <<"t", "a", "i", "p", "a">>>>],
      [label |-> <<"u73E0", "u6D77">>, id |-> <<"1", "7", "8", "9", "8", "5", "4", "4", "6", "0", "2", "9", "0", "7", "9", "3", "4", "8", "0">>, code |-> <<"0", "0", "3">>,
       keywords |-> <<<<"u73E0", "u6D77">>, <<"z", "h", "u", "h", "a", "i">>>>]>>

\* CONFIG["customerClasses"]
customerClasses ==
    <<[key |-> <<"u5BB6", "u7528", "u5BA2", "u6236">>, id |-> <<"1", "4", "8", "2", "6", "3", "8", "1", "2", "1", "0", "7", "0", "7", "5", "5", "8", "4", "4">>, code |-> <<"0", "0", "1">>],
      [key |-> <<"u5546", "u7528", "u5BA2", "u6236">>, id |-> <<"1", "4", "8", "2", "6", "3", "8", "1", "8", "9", "7", "9", "1", "8", "0", "5", "4", "4", "6">>, code |-> <<"0", "0", "2">>],
      [key |-> <<"u653F", "u5E9C", "u5C08", "u6848">>, id |-> <<"1", "4", "8", "2", "6", "3", "8", "8", "1", "6", "8", "6", "9", "6", "1", "3", "5", "7", "0">>, code |-> <<"0", "0", "6">>]>>

\* CONFIG["usageModes"]
usageModes ==
    <<[key |-> <<"u79DF">>, label |-> <<"u79DF">>, id |-> <<"U", "S", "A", "G", "E", "_", "R", "E", "N", "T", "_", "I", "D">>],
      [key |-> <<"u8CB7">>, label |-> <<"u8CB7">>, id |-> <<"U", "S", "A", "G", "E", "_", "B", "U", "Y", "_", "I", "D">>]>>

\* CONFIG["ownerOptions"]
ownerOptions ==
    <<[keywords |-> <<<<"u5BE7">>, <<"j", "a", "m", "e", "s">>, <<"n", "i", "n", "g">>>>,
       id |-> <<"1", "6", "3", "4", "6", "3", "3", "1", "4", "8", "2", "1", "6", "1", "1", "5", "2", "1", "0">>, name |-> <<"J", "a", "m", "e", "s">>],
      [keywords |-> <<<<"u6210">>, <<"c", "h", "e", "n", "g">>>>,
       id |-> <<"1", "6", "7", "5", "7", "1", "7", "0", "1", "8", "6", "4", "5", "9", "5", "4", "5", "6", "3">>, name |-> <<"u6881", "u5FC5", "u6210">>],
      [keywords |-> <<<<"l", "i", "z">>, <<"u8389", "u8332">>>>,
       id |-> <<"1", "8", "0", "4", "0", "4", "1", "6", "1", "3", "4", "3", "7", "0", "4", "2", "6", "9", "8">>, name |-> <<"u674E", "u6F64", "u5A77">>]>>

\* CONFIG["defaultOwner"]
defaultOwner ==
    [has |-> TRUE, id |-> <<"1", "4", "8", "2", "5", "5", "1", "2", "6", "8", "1", "3", "3", "0", "4", "4", "2", "3", "2">>, name |-> <<"u5BA2", "u670D", "0", "0", "3">>]

\* CONFIG["paymentMethods"] after lines 215-227, in the order of its keys:
\* the seven canonical keys, every alias under the object of its canonical
\* key, then the alias of line 224; obj is the identity of the object
paymentMethods ==
    [i \in 1..Len(PaymentObjects) |-> [key |-> PaymentObjects[i].label, obj |-> i]] \o
    [i \in 1..Len(_PAYMENT_ALIASES) |->
        [key |-> _PAYMENT_ALIASES[i].alias,
         obj |-> CHOOSE k \in 1..Len(PaymentObjects) :
                     PaymentObjects[k].label = _PAYMENT_ALIASES[i].canonical]] \o
    <<[key |-> <<"u9280", "u884C", "u81EA", "u52D5", "u8F49", "u8CEC">>, obj |-> 3]>>

\* the keys of a configured mapping, in order
KeysOf(mapping) == [i \in 1..Len(mapping) |-> mapping[i].key]

\* CONFIG["paymentMethods"].get(key): the object under key, 0 for none
PaymentObjectOf(key) ==
    IF \E i \in 1..Len(paymentMethods) : paymentMethods[i].key = key
    THEN paymentMethods[CHOOSE i \in 1..Len(paymentMethods) : paymentMethods[i].key = key].obj
    ELSE 0

\* CONFIG["paymentMethods"].get(key) as the entry of the record
PaymentEntry(key) ==
    IF PaymentObjectOf(key) = 0 THEN None
    ELSE [has |-> TRUE, label |-> PaymentObjects[PaymentObjectOf(key)].label,
          id |-> PaymentObjects[PaymentObjectOf(key)].id]

\* LABEL_MAP.get(label): "" for none
LabelKey(label) ==
    IF \E i \in 1..Len(LABEL_MAP) : LABEL_MAP[i].label = label
    THEN LABEL_MAP[CHOOSE i \in 1..Len(LABEL_MAP) : LABEL_MAP[i].label = label].key
    ELSE ""

FieldKeys == {LABEL_MAP[i].key : i \in 1..Len(LABEL_MAP)}

\* parse_lines: the separator a line is split on, "" when it holds none
SeparatorOf(line) ==
    IF IndexOf(line, "uFF1A") # 0 THEN "uFF1A"
    ELSE IF IndexOf(line, ":") # 0 THEN ":"
    ELSE IF IndexOf(line, "=") # 0 THEN "="
    ELSE ""

\* parse_lines: LABEL_MAP.get(strip(parts[0])) of a line with a separator
LineKey(line) == LabelKey(Strip(SubSeq(line, 1, IndexOf(line, SeparatorOf(line)) - 1)))

\* parse_lines: strip(parts[1])
LineValue(line) == Strip(SubSeq(line, IndexOf(line, SeparatorOf(line)) + 1, Len(line)))

\* parse_lines: parsed after one stripped line
NextParsed(parsed, last_key, line) ==
    IF line = <<>> THEN parsed
    ELSE IF SeparatorOf(line) # "" /\ LineKey(line) # ""
    THEN [parsed EXCEPT ![LineKey(line)] = LineValue(line)]
    ELSE IF last_key = "remark"
    THEN [parsed EXCEPT !["remark"] = Strip(parsed["remark"] \o <<"LF">> \o line)]
    ELSE parsed

\* last_key when every line with an unknown label ended the remark
LastKeyForgotten(last_key, line) ==
    IF line = <<>> \/ SeparatorOf(line) = "" THEN last_key
    ELSE LineKey(line)

\* parse_lines: last_key after one stripped line ("" is None)
NextLastKey(last_key, line) ==
    IF line = <<>> \/ SeparatorOf(line) = "" THEN last_key
    ELSE IF LineKey(line) # "" THEN LineKey(line)
    ELSE IF last_key = "remark" THEN "remark"
    ELSE ""

RECURSIVE ParsedLines(_, _, _)
ParsedLines(lines, parsed, last_key) ==
    IF lines = <<>> THEN parsed
    ELSE ParsedLines(Tail(lines), NextParsed(parsed, last_key, Strip(Head(lines))),
                     NextLastKey(last_key, Strip(Head(lines))))

\* parse_lines; a key that no line sets reads as the empty string
parse_lines(text) == ParsedLines(SplitOn(text, {"LF"}), [k \in FieldKeys |-> <<>>], "")

\* re.search(r"c\d{3,}", s, re.IGNORECASE), upper-cased: "" for no match
CodeIn(s) ==
    IF \E i \in 1..Len(s) : s[i] \in {"c", "C"} /\ \A k \in 1..3 : IsDigit(At(s, i + k))
    THEN <<"C">> \o
         SubSeq(s, SetMin({i \in 1..Len(s) :
                              s[i] \in {"c", "C"} /\ \A k \in 1..3 : IsDigit(At(s, i + k))}) + 1,
                RunEnd(s, SetMin({i \in 1..Len(s) :
                              s[i] \in {"c", "C"} /\ \A k \in 1..3 : IsDigit(At(s, i + k))}) + 1,
                       Digits))
    ELSE <<>>

\* the first of candidates at a position of hits, None (<<>>) without one
FirstOf(candidates, hits) == IF hits = {} THEN <<>> ELSE candidates[SetMin(hits)]

\* the last of candidates at a position of hits
LastOf(candidates, hits) == IF hits = {} THEN <<>> ELSE candidates[SetMax(hits)]

\* the positions of the keys of CONFIG["paymentMethods"] whose id is code
KeysWithId(code) ==
    {i \in 1..Len(paymentMethods) : PaymentObjects[paymentMethods[i].obj].id = code}

\* extract_choice, lines 366-372: a two-digit code picks the first candidate
\* whose payment method has that id
CodeChoice(cleaned, candidates) ==
    IF Len(cleaned) = 2 /\ IsDigit(cleaned[1]) /\ IsDigit(cleaned[2])
    THEN FirstOf(candidates,
                 {i \in 1..Len(candidates) :
                     /\ PaymentObjectOf(candidates[i]) # 0
                     /\ PaymentObjects[PaymentObjectOf(candidates[i])].id = cleaned})
    ELSE <<>>

Openers == {"uFF08", "("}

Closers == {"uFF09", ")"}

\* re.findall(r"[（(]([^（）()]+)[）)]", cleaned): the positions where a match opens
ParenStarts(cleaned) ==
    {i \in 1..Len(cleaned) :
        /\ cleaned[i] \in Openers
        /\ At(cleaned, i + 1) \notin Openers \cup Closers \cup {""}
        /\ At(cleaned, RunEnd(cleaned, i + 1,
                              {cleaned[k] : k \in 1..Len(cleaned)} \ (Openers \cup Closers)) + 1)
               \in Closers}

\* paren_matches[-1], for cleaned with a match
LastParen(cleaned) ==
    SubSeq(cleaned, SetMax(ParenStarts(cleaned)) + 1,
           RunEnd(cleaned, SetMax(ParenStarts(cleaned)) + 1,
                  {cleaned[k] : k \in 1..Len(cleaned)} \ (Openers \cup Closers)))

\* the words of re.sub(r"(這次試試|本次|試試)", "", ...) in their order
HedgingWords ==
    <<<<"u9019", "u6B21", "u8A66", "u8A66">>, <<"u672C", "u6B21">>, <<"u8A66", "u8A66">>>>

\* the word of HedgingWords matched at position i of s, 0 for none
WordAt(s, i) ==
    IF \E w \in 1..Len(HedgingWords) :
           SubSeq(s, i, Min(Len(s), i + Len(HedgingWords[w]) - 1)) = HedgingWords[w]
    THEN SetMin({w \in 1..Len(HedgingWords) :
                    SubSeq(s, i, Min(Len(s), i + Len(HedgingWords[w]) - 1)) = HedgingWords[w]})
    ELSE 0

RECURSIVE WithoutHedging(_)
WithoutHedging(s) ==
    IF \A i \in 1..Len(s) : WordAt(s, i) = 0 THEN s
    ELSE SubSeq(s, 1, SetMin({i \in 1..Len(s) : WordAt(s, i) # 0}) - 1) \o
         WithoutHedging(
             SubSeq(s,
                    SetMin({i \in 1..Len(s) : WordAt(s, i) # 0}) +
                        Len(HedgingWords[WordAt(s, SetMin({i \in 1..Len(s) : WordAt(s, i) # 0}))]),
                    Len(s)))

\* extract_choice, lines 375-382: the first candidate contained in the last
\* parenthesis
ParenChoice(cleaned, candidates) ==
    IF ParenStarts(cleaned) = {} THEN <<>>
    ELSE FirstOf(candidates,
                 {i \in 1..Len(candidates) :
                     Contains(Strip(WithoutHedging(LastParen(cleaned))), candidates[i])})

\* the alias itself
AliasItself(alias, obj) == alias

\* extract_choice, lines 388-393: the canonical key whose object is obj (is
\* config), the alias when there is none
CanonicalKey(alias, obj) ==
    IF obj \in 1..Len(PaymentObjects) THEN PaymentObjects[obj].label ELSE alias

\* extract_choice, lines 385-393: the first key of CONFIG["paymentMethods"]
\* that equals cleaned, blanks dropped, resolved to its canonical key
AliasChoice(cleaned) ==
    IF \E i \in 1..Len(paymentMethods) : Without(paymentMethods[i].key, " ") = cleaned
    THEN CanonicalKey(
             paymentMethods[SetMin({i \in 1..Len(paymentMethods) :
                                      Without(paymentMethods[i].key, " ") = cleaned})].key,
             paymentMethods[SetMin({i \in 1..Len(paymentMethods) :
                                      Without(paymentMethods[i].key, " ") = cleaned})].obj)
    ELSE <<>>

\* extract_choice, lines 396-398
DirectChoice(cleaned, candidates) ==
    FirstOf(candidates, {i \in 1..Len(candidates) : Without(candidates[i], " ") = cleaned})

\* the first of the choices that is not None
FirstChoice(choices) ==
    IF \A i \in 1..Len(choices) : choices[i] = <<>> THEN <<>>
    ELSE choices[SetMin({i \in 1..Len(choices) : choices[i] # <<>>})]

\* extract_choice: None is <<>>
extract_choice(value, candidates) ==
    IF value = <<>> THEN <<>>
    ELSE FirstChoice(<<CodeChoice(NoSpace(value), candidates),
                       ParenChoice(NoSpace(value), candidates),
                       AliasChoice(NoSpace(value)),
                       DirectChoice(NoSpace(value), candidates)>>)

\* the last key of CONFIG["paymentMethods"] whose id is a two-digit code
LabelOfCodeLast(code) ==
    IF Len(code) = 2 /\ IsDigit(code[1]) /\ IsDigit(code[2])
    THEN LastOf(KeysOf(paymentMethods), KeysWithId(code))
    ELSE <<>>

\* parse_customer_text, lines 660-665: the label of a two-digit code, the
\* first key of CONFIG["paymentMethods"] whose id it is
LabelOfCode(code) ==
    IF Len(code) = 2 /\ IsDigit(code[1]) /\ IsDigit(code[2])
    THEN FirstOf(KeysOf(paymentMethods), KeysWithId(code))
    ELSE <<>>

\* parse_customer_text, lines 668-690: the label when the code gave by_code
\* and extract_choice gave extracted_label
LabelOrDefault(by_code, extracted_label) ==
    IF by_code # <<>> THEN by_code
    ELSE IF extracted_label # <<>> /\ PaymentObjectOf(extracted_label) # 0 THEN extracted_label
    ELSE IF extracted_label # <<>>
            /\ \E i \in 1..Len(paymentMethods) :
                   PaymentObjects[paymentMethods[i].obj].label = extracted_label
    THEN paymentMethods[SetMin({i \in 1..Len(paymentMethods) :
             PaymentObjects[paymentMethods[i].obj].label = extracted_label})].key
    ELSE <<"u4E00", "u6B21", "u6027", "u5168", "u7E73">>

\* payment_label of parse_customer_text
PaymentLabel(payment_method_input) ==
    LabelOrDefault(LabelOfCode(Strip(payment_method_input)),
                   extract_choice(payment_method_input, KeysOf(paymentMethods)))

\* CONFIG["usageModes"].get(usage_label)
UsageEntry(usage_label) ==
    IF \E i \in 1..Len(usageModes) : usageModes[i].key = usage_label
    THEN [has |-> TRUE,
          label |-> usageModes[CHOOSE i \in 1..Len(usageModes) : usageModes[i].key = usage_label].label,
          id |-> usageModes[CHOOSE i \in 1..Len(usageModes) : usageModes[i].key = usage_label].id]
    ELSE None

\* {**customer_class, "label": category_label} if customer_class else None
ClassEntry(category_label) ==
    IF \E i \in 1..Len(customerClasses) : customerClasses[i].key = category_label
    THEN [has |-> TRUE,
          id |-> customerClasses[CHOOSE i \in 1..Len(customerClasses) :
                                     customerClasses[i].key = category_label].id,
          code |-> customerClasses[CHOOSE i \in 1..Len(customerClasses) :
                                       customerClasses[i].key = category_label].code,
          label |-> category_label]
    ELSE None

resolve_sale_area(address) ==
    IF \E i \in 1..Len(saleAreas) : \E k \in 1..Len(saleAreas[i].keywords) :
           Contains(Lower(address), Lower(saleAreas[i].keywords[k]))
    THEN [has |-> TRUE,
          label |-> saleAreas[SetMin({i \in 1..Len(saleAreas) :
                        \E k \in 1..Len(saleAreas[i].keywords) :
                            Contains(Lower(address), Lower(saleAreas[i].keywords[k]))})].label,
          id |-> saleAreas[SetMin({i \in 1..Len(saleAreas) :
                        \E k \in 1..Len(saleAreas[i].keywords) :
                            Contains(Lower(address), Lower(saleAreas[i].keywords[k]))})].id,
          code |-> saleAreas[SetMin({i \in 1..Len(saleAreas) :
                        \E k \in 1..Len(saleAreas[i].keywords) :
                            Contains(Lower(address), Lower(saleAreas[i].keywords[k]))})].code]
    ELSE None

\* resolve_owner: the options a keyword of which is in candidate.lower()
OwnerHits(candidate) ==
    {i \in 1..Len(ownerOptions) :
        \E k \in 1..Len(ownerOptions[i].keywords) :
            Contains(Lower(candidate), ownerOptions[i].keywords[k])}

OwnerEntry(hits) ==
    [has |-> TRUE, id |-> ownerOptions[SetMin(hits)].id, name |-> ownerOptions[SetMin(hits)].name]

resolve_owner(raw_text, owner_hint) ==
    IF owner_hint # <<>> /\ OwnerHits(owner_hint) # {} THEN OwnerEntry(OwnerHits(owner_hint))
    ELSE IF OwnerHits(raw_text) # {} THEN OwnerEntry(OwnerHits(raw_text))
    ELSE defaultOwner

\* the length of a greedy \d{1,2} at p, where a digit is
Digits12(s, p) == IF IsDigit(At(s, p + 1)) THEN 2 ELSE 1

\* (\d{1,2}):(\d{2}) matched at p
TimeAt(s, p) ==
    /\ IsDigit(At(s, p))
    /\ At(s, p + Digits12(s, p)) = ":"
    /\ IsDigit(At(s, p + Digits12(s, p) + 1))
    /\ IsDigit(At(s, p + Digits12(s, p) + 2))

HourAt(s, p) == DigitsValue(SubSeq(s, p, p + Digits12(s, p) - 1))

MinuteAt(s, p) == DigitsValue(SubSeq(s, p + Digits12(s, p) + 1, p + Digits12(s, p) + 2))

\* datetime(year, month, day, hour, minute) raises ValueError
BadDateTime(t) == ~(ValidDate(t.year, t.month, t.day) /\ t.hour <= 23 /\ t.minute <= 59)

\* the result of parse_install_time for the fields t of a match: display and
\* iso, or the ValueError of datetime(...)
InstallTimeOf(t) ==
    IF BadDateTime(t) THEN [raised |-> TRUE, has |-> FALSE, display |-> <<>>, iso |-> <<>>]
    ELSE [raised |-> FALSE, has |-> TRUE,
          display |-> Pad4(t.year) \o <<"-">> \o Pad2(t.month) \o <<"-">> \o Pad2(t.day) \o
                      <<" ">> \o Pad2(t.hour) \o <<":">> \o Pad2(t.minute),
          iso |-> Pad4(t.year) \o <<"-">> \o Pad2(t.month) \o <<"-">> \o Pad2(t.day) \o
                  <<"T">> \o Pad2(t.hour) \o <<":">> \o Pad2(t.minute) \o <<":", "0", "0">>]

\* the full pattern of parse_install_time matched at i, the month at p1, the
\* day at p2, the optional time at p4
FullFields(s, i, p1, p2, p4) ==
    [year |-> DigitsValue(SubSeq(s, i, i + 3)),
     month |-> DigitsValue(SubSeq(s, p1, p1 + Digits12(s, p1) - 1)),
     day |-> DigitsValue(SubSeq(s, p2, p2 + Digits12(s, p2) - 1)),
     hour |-> IF TimeAt(s, p4) THEN HourAt(s, p4) ELSE 0,
     minute |-> IF TimeAt(s, p4) THEN MinuteAt(s, p4) ELSE 0]

\* where the month starts in a match of the full pattern at i
FullMonthAt(s, i) == SkipSpace(s, i + 5)

\* where the day starts
FullDayAt(s, i) == SkipSpace(s, FullMonthAt(s, i) + Digits12(s, FullMonthAt(s, i)) + 1)

\* where the optional time starts: after the day and (?:[日号]\s*)?
FullTimeAt(s, i) ==
    IF At(s, FullDayAt(s, i) + Digits12(s, FullDayAt(s, i))) \in {"u65E5", "u53F7"}
    THEN SkipSpace(s, FullDayAt(s, i) + Digits12(s, FullDayAt(s, i)) + 1)
    ELSE FullDayAt(s, i) + Digits12(s, FullDayAt(s, i))

\* (20\d{2})[./年-]\s*(\d{1,2})[./月-]\s*(\d{1,2}) matches at i
FullMatchAt(s, i) ==
    /\ At(s, i) = "2" /\ At(s, i + 1) = "0" /\ IsDigit(At(s, i + 2)) /\ IsDigit(At(s, i + 3))
    /\ At(s, i + 4) \in {".", "/", "u5E74", "-"}
    /\ IsDigit(At(s, FullMonthAt(s, i)))
    /\ At(s, FullMonthAt(s, i) + Digits12(s, FullMonthAt(s, i))) \in {".", "/", "u6708", "-"}
    /\ IsDigit(At(s, FullDayAt(s, i)))

\* where the day starts in a match of (\d{1,2})\s*月\s*(\d{1,2})\s*日 at i
MonthDayDayAt(s, i) == SkipSpace(s, SkipSpace(s, i + Digits12(s, i)) + 1)

MonthDayMatchAt(s, i) ==
    /\ IsDigit(At(s, i))
    /\ At(s, SkipSpace(s, i + Digits12(s, i))) = "u6708"
    /\ IsDigit(At(s, MonthDayDayAt(s, i)))
    /\ At(s, SkipSpace(s, MonthDayDayAt(s, i) + Digits12(s, MonthDayDayAt(s, i)))) = "u65E5"

\* the month and day of a match at i, the time of the first time in the text
\* at positions times, the year of the clock
MonthDayFields(s, i, times, now_year) ==
    [year |-> now_year,
     month |-> DigitsValue(SubSeq(s, i, i + Digits12(s, i) - 1)),
     day |-> DigitsValue(SubSeq(s, MonthDayDayAt(s, i),
                                MonthDayDayAt(s, i) + Digits12(s, MonthDayDayAt(s, i)) - 1)),
     hour |-> IF times = {} THEN 0 ELSE HourAt(s, SetMin(times)),
     minute |-> IF times = {} THEN 0 ELSE MinuteAt(s, SetMin(times))]

\* parse_install_time on the stripped text
InstallTimeIn(text, now_year) ==
    IF \E i \in 1..Len(text) : FullMatchAt(text, i)
    THEN InstallTimeOf(FullFields(text, SetMin({i \in 1..Len(text) : FullMatchAt(text, i)}),
             FullMonthAt(text, SetMin({i \in 1..Len(text) : FullMatchAt(text, i)})),
             FullDayAt(text, SetMin({i \in 1..Len(text) : FullMatchAt(text, i)})),
             FullTimeAt(text, SetMin({i \in 1..Len(text) : FullMatchAt(text, i)}))))
    ELSE IF \E i \in 1..Len(text) : MonthDayMatchAt(text, i)
    THEN InstallTimeOf(MonthDayFields(text,
             SetMin({i \in 1..Len(text) : MonthDayMatchAt(text, i)}),
             {p \in 1..Len(text) : TimeAt(text, p)}, now_year))
    ELSE [raised |-> FALSE, has |-> TRUE, display |-> text, iso |-> <<>>]

\* parse_install_time; now_year is datetime.now().year
parse_install_time(value, now_year) ==
    IF value = <<>> THEN [raised |-> FALSE, has |-> FALSE, display |-> <<>>, iso |-> <<>>]
    ELSE InstallTimeIn(Strip(value), now_year)

\* code.zfill(2)
ZFill2(code) == IF Len(code) = 0 THEN <<"0", "0">> ELSE IF Len(code) = 1 THEN <<"0">> \o code ELSE code

\* re.sub(old, "", s, flags=re.IGNORECASE) for a literal old (fold), and
\* s.replace(old, "") (~fold): every occurrence of old left out of s
RECURSIVE Removed(_, _, _)
Removed(s, old, fold) ==
    IF old = <<>> \/ \A i \in 1..(Len(s) - Len(old) + 1) :
           IF fold THEN Lower(SubSeq(s, i, i + Len(old) - 1)) # Lower(old)
           ELSE SubSeq(s, i, i + Len(old) - 1) # old
    THEN s
    ELSE SubSeq(s, 1, SetMin({i \in 1..(Len(s) - Len(old) + 1) :
                    IF fold THEN Lower(SubSeq(s, i, i + Len(old) - 1)) = Lower(old)
                    ELSE SubSeq(s, i, i + Len(old) - 1) = old}) - 1) \o
         Removed(SubSeq(s, SetMin({i \in 1..(Len(s) - Len(old) + 1) :
                    IF fold THEN Lower(SubSeq(s, i, i + Len(old) - 1)) = Lower(old)
                    ELSE SubSeq(s, i, i + Len(old) - 1) = old}) + Len(old), Len(s)),
                 old, fold)

\* the warnings of parse_customer_text in the order they are appended
WarningsOf(customer_code, contact_phone, customer_class, payment_method, sale_area, address) ==
    (IF customer_code = <<>> THEN <<"noCustomerCode">> ELSE <<>>) \o
    (IF Strip(contact_phone) = <<>> THEN <<"noContactTel">> ELSE <<>>) \o
    (IF ~customer_class.has THEN <<"unknownCategory">> ELSE <<>>) \o
    (IF ~payment_method.has THEN <<"unknownPayment">> ELSE <<>>) \o
    (IF ~sale_area.has /\ address # <<>> THEN <<"unknownSaleArea">> ELSE <<>>)

\* build_crm_payload: the AttributeError of None.get at lines 507 and 569,
\* else the identifiers and labels the payload carries
build_crm_payload(normalized) ==
    IF ~normalized.usageMode.has \/ ~normalized.customerClass.has
    THEN [raised |-> TRUE]
    ELSE [raised |-> FALSE,
          duplicateCheck |-> [code |-> normalized.customerCode,
                              address |-> normalized.address,
                              customerClassId |-> normalized.customerClass.id],
          addApplication |->
              [code |-> normalized.customerCode,
               saleAreaId |-> IF normalized.saleArea.has THEN normalized.saleArea.id ELSE <<>>,
               ownerId |-> normalized.owner.id,
               usageMode |-> normalized.usageMode.label,
               paymentMethod |-> normalized.paymentMethod.label,
               installTime |-> normalized.installTime.display,
               customerClassId |-> normalized.customerClass.id,
               payway |-> IF normalized.paymentMethod.id # <<>>
                          THEN normalized.paymentMethod.id
                          ELSE normalized.paymentMethod.label,
               customerIndustry |-> normalized.customerIndustry,
               largeText1 |-> normalized.usageMode.label],
          archive |-> [code |-> normalized.customerCode, address |-> normalized.address,
                       saleArea |-> normalized.saleArea, owner |-> normalized.owner]]

\* what parse_customer_text returns, or the exception it ends with
ReturnOf(normalized, warnings, install_raised) ==
    IF install_raised THEN [raised |-> "ValueError"]
    ELSE IF build_crm_payload(normalized).raised THEN [raised |-> "AttributeError"]
    ELSE [raised |-> "", normalized |-> normalized,
          crmPayload |-> build_crm_payload(normalized), warnings |-> warnings]

\* parse_customer_text, lines 697-747: the normalized record
NormalizedOf(raw_fields, customer_code, category_label, payment_label, usage_label, sale_area, install_time, owner) ==
    [customerCode |-> customer_code,
     baseName |-> Strip(Removed(raw_fields["customerName"], customer_code, TRUE)),
     displayName |-> Strip(customer_code \o
                           Strip(Removed(raw_fields["customerName"], customer_code, TRUE)) \o
                           Strip(raw_fields["contactPhone"])),
     shortName |-> TextOr(Strip(customer_code \o
                              Strip(Removed(raw_fields["customerName"], customer_code, TRUE))),
                          customer_code),
     contactTel |-> Strip(raw_fields["contactPhone"]),
     contactName |-> TextOr(Strip(Removed(raw_fields["contactPhone"],
                                          Strip(raw_fields["contactPhone"]), FALSE)),
                            <<"u806F", "u7D61", "u4EBA">>),
     address |-> raw_fields["address"],
     saleArea |-> sale_area,
     paymentMethod |-> PaymentEntry(payment_label),
     usageMode |-> UsageEntry(usage_label),
     monthlyFee |-> number_from_string(raw_fields["monthlyFee"]),
     deposit |-> number_from_string(raw_fields["deposit"]),
     prepay |-> number_from_string(raw_fields["prepay"]),
     totalAmount |-> number_from_string(raw_fields["totalAmount"]),
     installContent |-> raw_fields["installContent"],
     remark |-> raw_fields["remark"],
     installTime |-> [has |-> install_time.has, display |-> install_time.display,
                      iso |-> install_time.iso],
     customerClass |-> ClassEntry(category_label),
     paymentLabel |-> payment_label,
     usageLabel |-> usage_label,
     ownerHint |-> raw_fields["ownerHint"],
     owner |-> owner,
     customerIndustry |-> [id |-> ZFill2(PaymentEntry(payment_label).id),
                           label |-> payment_label, name |-> payment_label],
     rawFields |-> raw_fields]

\* parse_customer_text after parse_lines
ResolvedText(raw_fields, text, customer_code, category_label, payment_label, sale_area, install_time) ==
    ReturnOf(NormalizedOf(raw_fields, customer_code, category_label, payment_label,
                          TextOr(extract_choice(raw_fields["usageMode"], KeysOf(usageModes)),
                                   <<"u79DF">>),
                          sale_area, install_time,
                          resolve_owner(text, raw_fields["ownerHint"])),
             WarningsOf(customer_code, raw_fields["contactPhone"], ClassEntry(category_label),
                        PaymentEntry(payment_label), sale_area, raw_fields["address"]),
             install_time.raised)

ParsedText(raw_fields, text, now_year) ==
    ResolvedText(raw_fields, text,
                 IF CodeIn(raw_fields["customerName"]) # <<>>
                 THEN CodeIn(raw_fields["customerName"]) ELSE CodeIn(text),
                 TextOr(extract_choice(raw_fields["customerCategory"], KeysOf(customerClasses)),
                          <<"u5546", "u7528", "u5BA2", "u6236">>),
                 PaymentLabel(raw_fields["paymentMethod"]),
                 resolve_sale_area(raw_fields["address"]),
                 parse_install_time(raw_fields["installTime"], now_year))

\* parse_customer_text(text) with auto_generate_code and check_duplicate left
\* at False
parse_customer_text(text, now_year) ==
    IF Strip(text) = <<>> THEN [raised |-> "ValueError"]
    ELSE ParsedText(parse_lines(text), text, now_year)

\* the lines a briefing may open with
FirstLines ==
    {<<" ", " ">>,
     <<"u5BA2", "u6236", "u540D", "u7A31", ":", " ", "C", "0", "0", "1", "u9673", "u5148", "u751F">>,
     <<"u5BA2", "u6236", "u540D", "u7A31", ":", " ", "u9673", "c", "0", "0", "1", "u751F", " ", "(", "c", "0", "0", "1", "2", ")">>,
     <<"u5099", "u8A3B", ":", " ", "u6708", "u8CBB">>,
     <<"u806F", "u7E6B", "u96FB", "u8A71", ":", " ", "u9673", "u751F", " ", "6", "6", "0", "0", "1", "2", "3", "4">>}

\* payment lines: a label of LABEL_MAP, a separator, a value
PaymentLines ==
    {<<"u4ED8", "u6B3E", "u65B9", "u5F0F", ":", " ", "0", "1">>,
     <<"u4ED8", "u6B3E", "u65B9", "u5F0F", ":", " ", "0", "2">>,
     <<"u4ED8", "u6B3E", "u65B9", "u5F0F", ":", " ", "0", "3">>,
     <<"u4ED8", "u6B3E", "u65B9", "u5F0F", ":", " ", "0", "4">>,
     <<"u4ED8", "u6B3E", "u65B9", "u5F0F", ":", " ", "0", "5">>,
     <<"u4ED8", "u6B3E", "u65B9", "u5F0F", ":", " ", "0", "6">>,
     <<"u4ED8", "u6B3E", "u65B9", "u5F0F", ":", " ", "0", "7">>,
     <<"u4ED8", "u6B3E", "u65B9", "u5F0F", ":", " ", "u4E00", "u6B21", "u6027", "u4ED8", "u6B3E">>,
     <<"u4ED8", "u6B3E", "u65B9", "u5F0F", ":", " ", "u4E00", "u6B21", "u6027", "u7E73", "u4EA4">>,
     <<"u4ED8", "u6B3E", "u65B9", "u5F0F", ":", " ", "u4E00", "u6B21", "u6027", "u5168", "u6B3E">>,
     <<"u4ED8", "u6B3E", "u65B9", "u5F0F", ":", " ", "u5168", "u984D", "u4ED8", "u6B3E">>,
     <<"u4ED8", "u6B3E", "u65B9", "u5F0F", ":", " ", "u5168", "u984D", "u7E73", "u4EA4">>,
     <<"u4ED8", "u6B3E", "u65B9", "u5F0F", ":", " ", "u5B63", "u5EA6", "u6708", "u8CBB">>,
     <<"u4ED8", "u6B3E", "u65B9", "u5F0F", ":", " ", "u5B63", "u5EA6", "u4ED8", "u6B3E">>,
     <<"u4ED8", "u6B3E", "u65B9", "u5F0F", ":", " ", "u5B63", "u5EA6", "u7E73", "u8CBB">>,
     <<"u4ED8", "u6B3E", "u65B9", "u5F0F", ":", " ", "u5B63", "u4ED8">>,
     <<"u4ED8", "u6B3E", "u65B9", "u5F0F", ":", " ", "u5E74", "u5EA6", "u6708", "u8CBB">>,
     <<"u4ED8", "u6B3E", "u65B9", "u5F0F", ":", " ", "u5E74", "u5EA6", "u4ED8", "u6B3E">>,
     <<"u4ED8", "u6B3E", "u65B9", "u5F0F", ":", " ", "u5E74", "u5EA6", "u7E73", "u8CBB">>,
     <<"u4ED8", "u6B3E", "u65B9", "u5F0F", ":", " ", "u5E74", "u4ED8">>,
     <<"u4ED8", "u6B3E", "u65B9", "u5F0F", ":", " ", "u6708", "u8CBB">>,
     <<"u4ED8", "u6B3E", "u65B9", "u5F0F", ":", " ", "u6BCF", "u6708", "u6708", "u8CBB">>,
     <<"u4ED8", "u6B3E", "u65B9", "u5F0F", ":", " ", "u6BCF", "u6708", "u4ED8", "u6B3E">>,
     <<"u4ED8", "u6B3E", "u65B9", "u5F0F", ":", " ", "u6BCF", "u6708", "u7E73", "u8CBB">>,
     <<"u4ED8", "u6B3E", "u65B9", "u5F0F", ":", " ", "u6708", "u4ED8">>,
     <<"u4ED8", "u6B3E", "u65B9", "u5F0F", ":", " ", "u9280", "u884C", "u8F49", "u5E33">>,
     <<"u4ED8", "u6B3E", "u65B9", "u5F0F", ":", " ", "u9280", "u884C", "u532F", "u6B3E">>,
     <<"u4ED8", "u6B3E", "u65B9", "u5F0F", ":", " ", "u81EA", "u52D5", "u6263", "u6B3E">>,
     <<"u4ED8", "u6B3E", "u65B9", "u5F0F", ":", " ", "u9280", "u884C", "u5361", "u81EA", "u52D5", "u6263", "u6B3E">>,
     <<"u4ED8", "u6B3E", "u65B9", "u5F0F", ":", " ", "u8F49", "u5E33">>,
     <<"u4ED8", "u6B3E", "u65B9", "u5F0F", ":", " ", "u8F49", "u8CEC">>,
     <<"u4ED8", "u6B3E", "u65B9", "u5F0F", ":", " ", "u4FE1", "u7528", "u5361">>,
     <<"u4ED8", "u6B3E", "u65B9", "u5F0F", ":", " ", "u4FE1", "u7528", "u5361", "u4ED8", "u6B3E">>,
     <<"u4ED8", "u6B3E", "u65B9", "u5F0F", ":", " ", "u4FE1", "u7528", "u5361", "u5237", "u5361">>,
     <<"u4ED8", "u6B3E", "u65B9", "u5F0F", ":", " ", "u4FE1", "u7528", "u5361", "u4ED8", "u8CBB">>,
     <<"u4ED8", "u6B3E", "u65B9", "u5F0F", ":", " ", "u4FE1", "u7528", "u5361", "u5206", "u671F", "u4ED8", "u6B3E">>,
     <<"u4ED8", "u6B3E", "u65B9", "u5F0F", ":", " ", "u8A66", "u7528", "u671F">>,
     <<"u4ED8", "u6B3E", "u65B9", "u5F0F", ":", " ", "u514D", "u8CBB", "u8A66", "u7528">>,
     <<"u4ED8", "u6B3E", "u65B9", "u5F0F", ":", " ", "u9280", "u884C", "u81EA", "u52D5", "u8F49", "u8CEC">>,
     <<"u4ED8", "u6B3E", "u65B9", "u5F0F", ":", " ", "u4E00", "u6B21", "u6027", "u5168", "u7E73">>,
     <<"u4ED8", "u6B3E", "u65B9", "u5F0F", ":", " ", "u4FE1", "u7528", "u5361", "u5206", "u671F">>,
     <<"u4ED8", "u6B3E", "u65B9", "u5F0F", ":", " ", "u9280", "u884C", "u5361", "u81EA", "u52D5", "u8F49", "u8CEC">>,
     <<"u4ED8", "u6B3E", "u65B9", "u5F0F", ":", " ", "u5B63", "u5EA6", "u6536", "u8CBB">>,
     <<"u4ED8", "u6B3E", "u65B9", "u5F0F", ":", " ", "u5E74", "u5EA6", "u6536", "u8CBB">>,
     <<"u4ED8", "u6B3E", "u65B9", "u5F0F", ":", " ", "u8A66", "u7528">>,
     <<"u4ED8", "u6B3E", "u65B9", "u5F0F", ":", " ", "u6BCF", "u6708", "u6536", "u8CBB">>,
     <<"u4ED8", "u6B3E", "u65B9", "u5F0F", ":", " ", "u4E82", "u5BEB">>,
     <<"u4ED8", "u6B3E", "u65B9", "u5F0F", ":", " ", "0", "9">>,
     <<"u4ED8", "u6B3E", "u65B9", "u5F0F", ":", " ", "0", " ", "2">>,
     <<"u4ED8", "u6B3E", "u65B9", "u5F0F", ":", " ", "(", "u6708", "u8CBB", ")">>,
     <<"u4ED8", "u6B3E", "u65B9", "u5F0F", ":", " ", "u73FE", "u91D1", "(", "u672C", "u6B21", "u6708", "u4ED8", ")">>,
     <<"u4ED8", "u6B3E", "u65B9", "u5F0F", ":", " ", "u73FE", "u91D1", "uFF08", "u8A66", "u8A66", "u5B63", "u4ED8", "uFF09">>,
     <<"u4ED8", "u6B3E", "u65B9", "u5F0F", ":", " ", "u6708", " ", "u8CBB">>,
     <<"u4ED8", "u6B3E", "u65B9", "u5F0F", ":", " ">>,
     <<"u4ED8", "u6B3E", "u65B9", "u5F0F", ":", " ", "1">>,
     <<"u4ED8", "u6B3E", "u65B9", "u5F0F", ":", " ", "0", "0", "7">>,
     <<"u76EE", "u524D", "u4ED8", "u8CBB", "u65B9", "u5F0F", "uFF1A", "0", "3">>,
     <<"u76EE", "u524D", "u4ED8", "u8CBB", "u65B9", "u5F0F", "uFF1A", "u6708", "u8CBB">>,
     <<"u76EE", "u524D", "u4ED8", "u8CBB", "u65B9", "u5F0F", "uFF1A", "u4E82", "u5BEB">>,
     <<"u76EE", "u524D", "u4ED8", "u8CBB", "u65B9", "u5F0F", "uFF1A", "u5B63", "u4ED8">>,
     <<"u4ED8", "u6B3E", "u65B9", "u5F0F", "=", "0", "5">>,
     <<"u4ED8", "u6B3E", "u65B9", "u5F0F", "=", "u8F49", "u8CEC">>}

\* the lines a briefing may close with
OtherLines ==
    {<<"u6708", "u8CBB">>,
     <<"u4F7F", "u7528", "u65B9", "u5F0F", ":", " ", "u8CB7">>,
     <<"u4F7F", "u7528", "u65B9", "u5F0F", ":", " ", "u6708", "u8CBB">>,
     <<"u4F7F", "u7528", "u65B9", "u5F0F", ":", " ", "u81EA", "u7528">>,
     <<"u5BA2", "u6236", "u5206", "u985E", ":", " ", "u5BB6", "u7528", "u5BA2", "u6236">>,
     <<"u5BA2", "u6236", "u5206", "u985E", ":", " ", "u6708", "u8CBB">>,
     <<"u5BA2", "u6236", "u5206", "u985E", ":", " ", "u5B78", "u6821">>,
     <<"u5730", "u5740", ":", " ", "u6FB3", "u9580", "u9ED1", "u6C99", "u74B0">>,
     <<"u5730", "u5740", ":", " ", "u9999", "u6E2F">>,
     <<"u5730", "u9EDE", ":", " ", "T", "a", "i", "p", "a", " ", "u82B1", "u57CE">>,
     <<"u5B89", "u88DD", "u6642", "u9593", ":", " ", "2", "0", "2", "4", "-", "0", "2", "-", "2", "9", " ", "1", "0", ":", "3", "0">>,
     <<"u5B89", "u88DD", "u6642", "u9593", ":", " ", "2", "0", "2", "4", "u5E74", "2", "u6708", "2", "9", "u65E5", " ", "9", ":", "0", "5">>,
     <<"u5B89", "u88DD", "u6642", "u9593", ":", " ", "2", "0", "2", "4", "-", "0", "2", "-", "3", "0">>,
     <<"u5B89", "u88DD", "u6642", "u9593", ":", " ", "2", "0", "2", "4", "/", "2", "/", "2", "9">>,
     <<"u5B89", "u88DD", "u6642", "u9593", ":", " ", "1", "3", "u6708", "4", "5", "u65E5">>,
     <<"u5B89", "u88DD", "u6642", "u9593", ":", " ", "2", "u6708", "2", "9", "u65E5", " ", "u4E0B", "u5348", " ", "3", ":", "3", "0">>,
     <<"u5B89", "u88DD", "u6642", "u9593", ":", " ", "2", "u6708", "2", "8", "u65E5">>,
     <<"u5B89", "u88DD", "u6642", "u9593", ":", " ", "u4E0B", "u9031", "u4E09">>,
     <<"u8CA0", "u8CAC", "u4EBA", ":", " ", "J", "a", "m", "e", "s">>,
     <<"u92B7", "u552E", ":", " ", "u963F", "u6210">>,
     <<"u6708", "u8CBB", "u91D1", "u984D", ":", " ", "2", "8", "8", "*", "2", "4", "=", "6", "9", "1", "2">>,
     <<"u4ED8", "u6B3E", "u65B9", "u5F0F", ":", " ", "0", "2">>}

RECURSIVE JoinLines(_)
JoinLines(lines) ==
    IF lines = <<>> THEN <<>>
    ELSE IF Len(lines) = 1 THEN lines[1]
    ELSE lines[1] \o <<"LF">> \o JoinLines(Tail(lines))

\* a briefing: at most one line before the payment line, at most one payment
\* line, at most one line after it
CustomerTexts ==
    {JoinLines(first \o payment \o other) :
        first \in {<<>>} \cup {<<l>> : l \in FirstLines},
        payment \in {<<>>} \cup {<<l>> : l \in PaymentLines},
        other \in {<<>>} \cup {<<l>> : l \in OtherLines}}

\* the years datetime.now() can give: a leap year and one that is none
NowYears == {2027, 2028}

CustInit ==
    /\ custText \in CustomerTexts
    /\ custNowYear \in NowYears
    /\ custRet = [raised |-> ""]
    /\ custPc = "text"

\* parse_customer_text(text)
ParseCustomerText ==
    /\ custPc = "text"
    /\ custRet' = parse_customer_text(custText, custNowYear)
    /\ custPc' = IF custRet'.raised = "" THEN "returned" ELSE "raised"
    /\ UNCHANGED <<custText, custNowYear, notCust>>

CustNext == ParseCustomerText

CustIdle ==
    /\ custText = <<>> /\ custNowYear = 0 /\ custRet = [raised |-> ""] /\ custPc = "idle"

(***************************************************************************)
(* The customer application payload: build_apply_payload, _assign_field    *)
(* and _cleanup.  A JSON value is [t, v]: t its type, v its content; a     *)
(* mapping holds its entries [k, v] in insertion order.                    *)
(***************************************************************************)
JNull == [t |-> "null"]

JStr(s) == [t |-> "str", v |-> s]

JNum(n) == [t |-> "num", v |-> n]

JBool(b) == [t |-> "bool", v |-> b]

JMap(entries) == [t |-> "map", v |-> entries]

JList(items) == [t |-> "list", v |-> items]

\* a number of the record, None for none
JNumber(n) == IF n.ok THEN JNum(n) ELSE JNull

\* value in (None, "", [], {})
IsBlank(value) == value.t = "null" \/ (value.t \in {"str", "map", "list"} /\ value.v = <<>>)

\* key in mapping
HasKey(entries, key) == \E i \in 1..Len(entries) : entries[i].k = key

\* mapping.get(key, default)
GetOr(entries, key, default) ==
    IF HasKey(entries, key)
    THEN entries[CHOOSE i \in 1..Len(entries) : entries[i].k = key].v
    ELSE default

\* mapping[key] = value
Put(entries, key, value) ==
    IF HasKey(entries, key)
    THEN [i \in 1..Len(entries) |->
             IF entries[i].k = key THEN [k |-> key, v |-> value] ELSE entries[i]]
    ELSE Append(entries, [k |-> key, v |-> value])

\* mapping.pop(key, None)
Pop(entries, key) == SelectSeq(entries, LAMBDA e : e.k # key)

\* the spelling of the keys and fixed texts of the payload
Key ==
    ("zh_TW" :> <<"z", "h", "_", "T", "W">>) @@
    ("zh_CN" :> <<"z", "h", "_", "C", "N">>) @@
    ("merchantCharacter" :> <<"m", "e", "r", "c", "h", "a", "n", "t", "C", "h", "a", "r", "a", "c", "t", "e", "r">>) @@
    ("merchantCharacterEntity!merchantCharacter" :> <<"m", "e", "r", "c", "h", "a", "n", "t", "C", "h", "a", "r", "a", "c", "t", "e", "r", "E", "n", "t", "i", "t", "y", "!", "m", "e", "r", "c", "h", "a", "n", "t", "C", "h", "a", "r", "a", "c", "t", "e", "r">>) @@
    ("customerAddApplyCharacter" :> <<"c", "u", "s", "t", "o", "m", "e", "r", "A", "d", "d", "A", "p", "p", "l", "y", "C", "h", "a", "r", "a", "c", "t", "e", "r">>) @@
    ("isDefault" :> <<"i", "s", "D", "e", "f", "a", "u", "l", "t">>) @@
    ("addressCode" :> <<"a", "d", "d", "r", "e", "s", "s", "C", "o", "d", "e">>) @@
    ("address" :> <<"a", "d", "d", "r", "e", "s", "s">>) @@
    ("receiver" :> <<"r", "e", "c", "e", "i", "v", "e", "r">>) @@
    ("mobile" :> <<"m", "o", "b", "i", "l", "e">>) @@
    ("telePhone" :> <<"t", "e", "l", "e", "P", "h", "o", "n", "e">>) @@
    ("_status" :> <<"_", "s", "t", "a", "t", "u", "s">>) @@
    ("Insert" :> <<"I", "n", "s", "e", "r", "t">>) @@
    ("addressInfoCharacter" :> <<"a", "d", "d", "r", "e", "s", "s", "I", "n", "f", "o", "C", "h", "a", "r", "a", "c", "t", "e", "r">>) @@
    ("regionCode" :> <<"r", "e", "g", "i", "o", "n", "C", "o", "d", "e">>) @@
    ("mergerName" :> <<"m", "e", "r", "g", "e", "r", "N", "a", "m", "e">>) @@
    ("org" :> <<"o", "r", "g">>) @@
    ("dept" :> <<"d", "e", "p", "t">>) @@
    ("fullName" :> <<"f", "u", "l", "l", "N", "a", "m", "e">>) @@
    ("contacterCharacter" :> <<"c", "o", "n", "t", "a", "c", "t", "e", "r", "C", "h", "a", "r", "a", "c", "t", "e", "r">>) @@
    ("systemSource" :> <<"s", "y", "s", "t", "e", "m", "S", "o", "u", "r", "c", "e">>) @@
    ("bustype" :> <<"b", "u", "s", "t", "y", "p", "e">>) @@
    ("applyTime" :> <<"a", "p", "p", "l", "y", "T", "i", "m", "e">>) @@
    ("code" :> <<"c", "o", "d", "e">>) @@
    ("transType" :> <<"t", "r", "a", "n", "s", "T", "y", "p", "e">>) @@
    ("ower" :> <<"o", "w", "e", "r">>) @@
    ("saleArea" :> <<"s", "a", "l", "e", "A", "r", "e", "a">>) @@
    ("name" :> <<"n", "a", "m", "e">>) @@
    ("shortname" :> <<"s", "h", "o", "r", "t", "n", "a", "m", "e">>) @@
    ("custCode" :> <<"c", "u", "s", "t", "C", "o", "d", "e">>) @@
    ("retailInvestors" :> <<"r", "e", "t", "a", "i", "l", "I", "n", "v", "e", "s", "t", "o", "r", "s">>) @@
    ("internalOrg" :> <<"i", "n", "t", "e", "r", "n", "a", "l", "O", "r", "g">>) @@
    ("customerClass" :> <<"c", "u", "s", "t", "o", "m", "e", "r", "C", "l", "a", "s", "s">>) @@
    ("customerIndustry" :> <<"c", "u", "s", "t", "o", "m", "e", "r", "I", "n", "d", "u", "s", "t", "r", "y">>) @@
    ("parentManageOrg" :> <<"p", "a", "r", "e", "n", "t", "M", "a", "n", "a", "g", "e", "O", "r", "g">>) @@
    ("merchantAppliedDetail!belongOrg" :> <<"m", "e", "r", "c", "h", "a", "n", "t", "A", "p", "p", "l", "i", "e", "d", "D", "e", "t", "a", "i", "l", "!", "b", "e", "l", "o", "n", "g", "O", "r", "g">>) @@
    ("merchantAppliedDetail!searchcode" :> <<"m", "e", "r", "c", "h", "a", "n", "t", "A", "p", "p", "l", "i", "e", "d", "D", "e", "t", "a", "i", "l", "!", "s", "e", "a", "r", "c", "h", "c", "o", "d", "e">>) @@
    ("merchantAppliedDetail!customerLevel" :> <<"m", "e", "r", "c", "h", "a", "n", "t", "A", "p", "p", "l", "i", "e", "d", "D", "e", "t", "a", "i", "l", "!", "c", "u", "s", "t", "o", "m", "e", "r", "L", "e", "v", "e", "l">>) @@
    ("enterpriseNature" :> <<"e", "n", "t", "e", "r", "p", "r", "i", "s", "e", "N", "a", "t", "u", "r", "e">>) @@
    ("licenseType" :> <<"l", "i", "c", "e", "n", "s", "e", "T", "y", "p", "e">>) @@
    ("taxPayingCategories" :> <<"t", "a", "x", "P", "a", "y", "i", "n", "g", "C", "a", "t", "e", "g", "o", "r", "i", "e", "s">>) @@
    ("enterpriseName" :> <<"e", "n", "t", "e", "r", "p", "r", "i", "s", "e", "N", "a", "m", "e">>) @@
    ("leaderName" :> <<"l", "e", "a", "d", "e", "r", "N", "a", "m", "e">>) @@
    ("leaderNameIdNo" :> <<"l", "e", "a", "d", "e", "r", "N", "a", "m", "e", "I", "d", "N", "o">>) @@
    ("creditCode" :> <<"c", "r", "e", "d", "i", "t", "C", "o", "d", "e">>) @@
    ("businessLicenseNo" :> <<"b", "u", "s", "i", "n", "e", "s", "s", "L", "i", "c", "e", "n", "s", "e", "N", "o">>) @@
    ("personName" :> <<"p", "e", "r", "s", "o", "n", "N", "a", "m", "e">>) @@
    ("contactName" :> <<"c", "o", "n", "t", "a", "c", "t", "N", "a", "m", "e">>) @@
    ("contactTel" :> <<"c", "o", "n", "t", "a", "c", "t", "T", "e", "l">>) @@
    ("buildTime" :> <<"b", "u", "i", "l", "d", "T", "i", "m", "e">>) @@
    ("money" :> <<"m", "o", "n", "e", "y">>) @@
    ("scopeModel" :> <<"s", "c", "o", "p", "e", "M", "o", "d", "e", "l">>) @@
    ("scope" :> <<"s", "c", "o", "p", "e">>) @@
    ("website" :> <<"w", "e", "b", "s", "i", "t", "e">>) @@
    ("wid" :> <<"w", "i", "d">>) @@
    ("largeText1" :> <<"l", "a", "r", "g", "e", "T", "e", "x", "t", "1">>) @@
    ("largeText3" :> <<"l", "a", "r", "g", "e", "T", "e", "x", "t", "3">>) @@
    ("principals" :> <<"p", "r", "i", "n", "c", "i", "p", "a", "l", "s">>) @@
    ("professSalesman" :> <<"p", "r", "o", "f", "e", "s", "s", "S", "a", "l", "e", "s", "m", "a", "n">>) @@
    ("specialManagementDep" :> <<"s", "p", "e", "c", "i", "a", "l", "M", "a", "n", "a", "g", "e", "m", "e", "n", "t", "D", "e", "p">>) @@
    ("customerAreas" :> <<"c", "u", "s", "t", "o", "m", "e", "r", "A", "r", "e", "a", "s">>) @@
    ("saleAreaId" :> <<"s", "a", "l", "e", "A", "r", "e", "a", "I", "d">>) @@
    ("merchantAddressInfos" :> <<"m", "e", "r", "c", "h", "a", "n", "t", "A", "d", "d", "r", "e", "s", "s", "I", "n", "f", "o", "s">>) @@
    ("merchantContacterInfos" :> <<"m", "e", "r", "c", "h", "a", "n", "t", "C", "o", "n", "t", "a", "c", "t", "e", "r", "I", "n", "f", "o", "s">>) @@
    ("merchantAppliedDetail!merchantApplyRangeDetailCharacter" :> <<"m", "e", "r", "c", "h", "a", "n", "t", "A", "p", "p", "l", "i", "e", "d", "D", "e", "t", "a", "i", "l", "!", "m", "e", "r", "c", "h", "a", "n", "t", "A", "p", "p", "l", "y", "R", "a", "n", "g", "e", "D", "e", "t", "a", "i", "l", "C", "h", "a", "r", "a", "c", "t", "e", "r">>) @@
    ("largeText2" :> <<"l", "a", "r", "g", "e", "T", "e", "x", "t", "2">>) @@
    ("largeText4" :> <<"l", "a", "r", "g", "e", "T", "e", "x", "t", "4">>) @@
    ("merchantAppliedDetail!payway" :> <<"m", "e", "r", "c", "h", "a", "n", "t", "A", "p", "p", "l", "i", "e", "d", "D", "e", "t", "a", "i", "l", "!", "p", "a", "y", "w", "a", "y">>) @@
    ("customerIndustry.name" :> <<"c", "u", "s", "t", "o", "m", "e", "r", "I", "n", "d", "u", "s", "t", "r", "y", ".", "n", "a", "m", "e">>)

\* the entry of a payload literal
E(name, value) == [k |-> Key[name], v |-> value]

_text_map(value) == JMap(<<E("zh_TW", JStr(value)), E("zh_CN", JStr(value))>>)

\* [segment for segment in field_code.split(".") if segment]
Segments(field_code) == SelectSeq(SplitOn(field_code, {"."}), LAMBDA s : s # <<>>)

\* _assign_field, lines 280-284: a segment before the last is there and is
\* no mapping
RECURSIVE PathBlocked(_, _)
PathBlocked(target, segments) ==
    /\ Len(segments) >= 2
    /\ HasKey(target, segments[1])
    /\ \/ GetOr(target, segments[1], JNull).t # "map"
       \/ PathBlocked(GetOr(target, segments[1], JNull).v, Tail(segments))

\* _assign_field, lines 279-285: the mappings along segments made where
\* missing, the value stored under the last segment
RECURSIVE PathSet(_, _, _)
PathSet(target, segments, value) ==
    IF Len(segments) = 1 THEN Put(target, segments[1], value)
    ELSE Put(target, segments[1],
             JMap(PathSet(GetOr(target, segments[1], JMap(<<>>)).v, Tail(segments), value)))

\* entity = data.setdefault(key, {}); if isinstance(entity, dict):
\* entity[nested_key] = value
NestedSet(data, key, nested_key, value) ==
    IF GetOr(data, key, JMap(<<>>)).t = "map"
    THEN Put(data, key, JMap(Put(GetOr(data, key, JMap(<<>>)).v, nested_key, value)))
    ELSE data

\* _assign_field, lines 292-307: field_code split at its first "__", at cut
CharacterField(data, prefix, nested_key, value) ==
    IF nested_key = <<>> THEN data
    ELSE IF prefix = Key["merchantCharacter"]
    THEN NestedSet(NestedSet(data, Key["merchantCharacterEntity!merchantCharacter"],
                             nested_key, value),
                   Key["merchantCharacter"], nested_key, value)
    ELSE IF prefix = Key["customerAddApplyCharacter"]
    THEN NestedSet(data, Key["customerAddApplyCharacter"], nested_key, value)
    ELSE data

\* the first position of "__" in field_code
DoubleAt(field_code) ==
    SetMin({i \in 1..Len(field_code) : field_code[i] = "_" /\ At(field_code, i + 1) = "_"})

\* _assign_field, lines 276-307, on data that holds the flat key
AssignedField(data, field_code, value) ==
    IF Contains(field_code, <<".">>) /\ ~Contains(field_code, <<"_", "_">>)
    THEN IF Len(Segments(field_code)) >= 2 /\ ~PathBlocked(data, Segments(field_code))
         THEN Pop(PathSet(data, Segments(field_code), value), field_code)
         ELSE data
    ELSE IF ~Contains(field_code, <<"_", "_">>) THEN data
    ELSE CharacterField(data, SubSeq(field_code, 1, DoubleAt(field_code) - 1),
                        SubSeq(field_code, DoubleAt(field_code) + 2, Len(field_code)), value)

\* _assign_field: the entries of data afterwards
_assign_field(data, field_code, value) ==
    IF field_code = <<>> \/ IsBlank(value) THEN data
    ELSE AssignedField(Put(data, field_code, value), field_code, value)

\* _cleanup: the values that are not None, "", [] or {} are kept, and then
\* cleaned
RECURSIVE _cleanup(_)
_cleanup(obj) ==
    IF obj.t = "map"
    THEN JMap([i \in 1..Len(SelectSeq(obj.v, LAMBDA e : ~IsBlank(e.v))) |->
                  [k |-> SelectSeq(obj.v, LAMBDA e : ~IsBlank(e.v))[i].k,
                   v |-> _cleanup(SelectSeq(obj.v, LAMBDA e : ~IsBlank(e.v))[i].v)]])
    ELSE IF obj.t = "list"
    THEN JList([i \in 1..Len(SelectSeq(obj.v, LAMBDA x : ~IsBlank(x))) |->
                   _cleanup(SelectSeq(obj.v, LAMBDA x : ~IsBlank(x))[i])])
    ELSE obj

\* str.isdigit() of a text of the model
IsDigits(s) == s # <<>> /\ \A i \in 1..Len(s) : IsDigit(s[i])

\* _sanitize_payment_code on the stripped value
SanitizedCode(clean, fallback) ==
    IF clean = <<>> THEN fallback
    ELSE IF IsDigits(clean) THEN (IF Len(clean) <= 2 THEN ZFill2(clean) ELSE clean)
    ELSE IF Contains(clean, <<"-">>) /\ Len(clean) <= 5 THEN clean
    ELSE fallback

_sanitize_payment_code(value, fallback) == SanitizedCode(Strip(value), fallback)

\* customer_submission._resolve_payment_industry_id with none of the
\* CFG_PAYMENT_*_INDUSTRY_ID variables set
submission_resolve_payment_industry_id(payment_code, settings) ==
    IF payment_code # <<>> THEN ZFill2(payment_code) ELSE settings.customer_industry_id

\* _fallback_address_code; stamp is the clock as %Y%m%d%H%M%S
_fallback_address_code(normalized, stamp) ==
    IF Strip(normalized.customerCode) # <<>> THEN Strip(normalized.customerCode)
    ELSE IF Strip(normalized.shortName) # <<>> THEN Strip(normalized.shortName)
    ELSE IF Strip(normalized.displayName) # <<>> THEN Strip(normalized.displayName)
    ELSE IF Strip(normalized.contactTel) # <<>> THEN Strip(normalized.contactTel)
    ELSE <<"A", "D", "D", "R">> \o stamp

\* build_apply_payload, lines 925-947: the owner and department of the
\* owner hint, [id, name, dept]
ApplyOwner(owner_hint, settings) ==
    IF owner_hint = <<"l", "i", "z">>
    THEN [id |-> settings.owner_liz_id, dept |-> settings.applicant_dept_id]
    ELSE IF owner_hint = <<"j", "a", "m", "e", "s">> \/ owner_hint = <<"u5BE7">>
    THEN [id |-> settings.owner_james_id, dept |-> settings.applicant_dept_id]
    ELSE IF owner_hint = <<"u6210">>
    THEN [id |-> settings.owner_liang_id, dept |-> settings.applicant_dept_id]
    ELSE [id |-> settings.service_owner_id, dept |-> settings.service_dept_id]

\* the id of an entry of the record that may be None
IdOf(entry) == IF entry.has THEN entry.id ELSE <<>>

\* the label of an entry of the record that may be None
LabelOf(entry) == IF entry.has THEN entry.label ELSE <<>>

\* build_apply_payload, lines 966-978
AddressBlock(normalized, settings, now) ==
    JMap(<<E("isDefault", JBool(TRUE)),
           E("addressCode", JStr(_fallback_address_code(normalized, now.stamp))),
           E("address", JStr(normalized.address)),
           E("receiver", JStr(normalized.contactName)),
           E("mobile", JStr(normalized.contactTel)),
           E("telePhone", JStr(normalized.contactTel)),
           E("_status", JStr(Key["Insert"])),
           E("addressInfoCharacter", JMap(<<>>))>> \o
         (IF settings.default_region_code # <<>>
          THEN <<E("regionCode", JStr(settings.default_region_code)),
                 E("mergerName", JStr(normalized.address))>>
          ELSE <<>>))

\* build_apply_payload, lines 955-964
ContactBlock(normalized, settings) ==
    JMap(<<E("isDefault", JBool(TRUE)),
           E("org", JStr(settings.sales_org_id)),
           E("dept", JStr(settings.applicant_dept_id)),
           E("fullName", _text_map(normalized.contactName)),
           E("mobile", JStr(normalized.contactTel)),
           E("telePhone", JStr(normalized.contactTel)),
           E("_status", JStr(Key["Insert"])),
           E("contacterCharacter", JMap(<<>>))>>)

\* build_apply_payload, lines 1015-1088: the payload before the field
\* assignments; owner is the owner of the hint, person_label the label of
\* lines 980-982
ApplyLiteral(normalized, settings, now, owner, person_label) ==
    <<E("systemSource", JStr(settings.system_source)),
      E("bustype", JStr(settings.bustype_id)),
      E("applyTime", JStr(now.datetime)),
      E("code", JStr(<<"C", "U", "S", "T">> \o now.stamp)),
      E("org", JStr(settings.applicant_org_id)),
      E("transType", JStr(settings.trans_type_id)),
      E("ower", JStr(TextOr(owner.id, settings.applicant_user_id))),
      E("dept", JStr(owner.dept)),
      E("saleArea", JStr(IdOf(normalized.saleArea))),
      E("name", _text_map(TextOr(normalized.displayName,
                                 TextOr(normalized.shortName, <<"u65B0", "u5BA2", "u6236">>)))),
      E("shortname", _text_map(TextOr(normalized.shortName,
                                      TextOr(normalized.displayName, <<"u65B0", "u5BA2", "u6236">>)))),
      E("custCode", JStr(normalized.customerCode)),
      E("retailInvestors", JBool(FALSE)),
      E("internalOrg", JBool(FALSE)),
      E("customerClass", JStr(IdOf(normalized.customerClass))),
      E("customerIndustry",
        JStr(TextOr(normalized.customerIndustry.id,
                    submission_resolve_payment_industry_id(
                        _sanitize_payment_code(IdOf(normalized.paymentMethod),
                                               settings.payment_way), settings)))),
      E("parentManageOrg", JStr(TextOr(settings.parent_manage_org_id, settings.sales_org_id))),
      E("merchantAppliedDetail!belongOrg", JStr(settings.sales_org_id)),
      E("merchantAppliedDetail!searchcode",
        JStr(settings.searchcode_prefix \o normalized.customerCode)),
      E("merchantAppliedDetail!customerLevel", JStr(settings.customer_level_id)),
      E("enterpriseNature", JNum(settings.enterprise_nature)),
      E("licenseType", JNum(settings.license_type)),
      E("taxPayingCategories", JNum(settings.tax_category)),
      E("enterpriseName", JStr(normalized.displayName)),
      E("leaderName", JStr(person_label)),
      E("leaderNameIdNo", JStr(<<>>)),
      E("creditCode", JStr(<<>>)),
      E("businessLicenseNo", JStr(<<>>)),
      E("regionCode", JStr(settings.default_region_code)),
      E("address", _text_map(normalized.address)),
      E("personName", JStr(person_label)),
      E("contactName", JStr(normalized.contactName)),
      E("contactTel", JStr(normalized.contactTel)),
      E("buildTime", JStr(now.date)),
      E("money", JNumber(normalized.totalAmount)),
      E("scopeModel", JNum(Normal(0, 0))),
      E("scope", _text_map(<<>>)),
      E("website", JStr(<<>>)),
      E("wid", JStr(<<>>)),
      E("largeText1", JStr(LabelOf(normalized.usageMode))),
      E("largeText3", JNumber(normalized.monthlyFee)),
      E("principals",
        JList(<<JMap(<<E("isDefault", JBool(TRUE)),
                       E("professSalesman", JStr(TextOr(owner.id, settings.applicant_user_id))),
                       E("specialManagementDep", JStr(owner.dept)),
                       E("_status", JStr(Key["Insert"]))>>)>>)),
      E("customerAreas",
        JList(<<JMap(<<E("isDefault", JBool(TRUE)),
                       E("saleAreaId", JStr(IdOf(normalized.saleArea))),
                       E("_status", JStr(Key["Insert"]))>>)>>)),
      E("merchantAddressInfos", JList(<<AddressBlock(normalized, settings, now)>>)),
      E("merchantContacterInfos",
        JList(IF settings.attach_contact_records
              THEN <<ContactBlock(normalized, settings)>> ELSE <<>>)),
      E("_status", JStr(Key["Insert"])),
      E("customerAddApplyCharacter", JMap(<<>>)),
      E("merchantAppliedDetail!merchantApplyRangeDetailCharacter", JMap(<<>>)),
      E("merchantCharacterEntity!merchantCharacter", JMap(<<>>))>> \o
    (IF normalized.installContent # <<>>
     THEN <<E("largeText2", JStr(normalized.installContent))>> ELSE <<>>) \o
    (IF normalized.remark # <<>>
     THEN <<E("largeText4", JStr(normalized.remark))>> ELSE <<>>)

\* build_apply_payload, lines 1089-1097: the payment code under the default
\* payment field, the label (or the code) under a payment field of the
\* settings that is another one
PaymentAssigned(payload, settings, payment_code, payment_label) ==
    IF settings.payment_field # <<>>
       /\ settings.payment_field # Key["merchantAppliedDetail!payway"]
    THEN _assign_field(_assign_field(payload, Key["merchantAppliedDetail!payway"],
                                     JStr(payment_code)),
                       settings.payment_field, JStr(TextOr(payment_label, payment_code)))
    ELSE _assign_field(payload, Key["merchantAppliedDetail!payway"], JStr(payment_code))

\* build_apply_payload, lines 1098-1112: the field assignments after the
\* payment field; industry_name is customer_industry["name"]
FieldsAssigned(payload, normalized, settings, industry_name) ==
    _assign_field(
        _assign_field(
            _assign_field(
                _assign_field(
                    _assign_field(payload, settings.plan_field, JStr(normalized.installContent)),
                    settings.remark_field, JStr(normalized.remark)),
                Key["customerIndustry.name"], JStr(industry_name)),
            settings.usage_field, JStr(LabelOf(normalized.usageMode))),
        settings.monthly_fee_field, JNumber(normalized.monthlyFee))

\* build_apply_payload; now is datetime.now() in the three forms it is
\* written in
build_apply_payload(normalized, settings, now) ==
    [data |-> _cleanup(JMap(
        FieldsAssigned(
            PaymentAssigned(
                ApplyLiteral(normalized, settings, now,
                             ApplyOwner(Lower(Strip(normalized.ownerHint)), settings),
                             TextOr(normalized.shortName,
                                    TextOr(normalized.baseName, normalized.contactName))),
                settings,
                _sanitize_payment_code(IdOf(normalized.paymentMethod), settings.payment_way),
                LabelOf(normalized.paymentMethod)),
            normalized, settings,
            TextOr(normalized.customerIndustry.name,
                   TextOr(normalized.customerIndustry.label,
                          LabelOf(normalized.paymentMethod))))))]

\* SubmissionSettings() under five settings of the environment: the defaults, and
\* four with other field paths, attached contact records and a region code
ApplySettings ==
    {[system_source |-> <<"a", "u", "t", "o", "_", "c", "r", "m">>,
      bustype_id |-> <<"1", "7", "7", "9", "3", "9", "3", "1", "2", "2", "4", "7", "2", "5", "5", "8", "5", "9", "8">>,
      applicant_org_id |-> <<"2", "8", "1", "6", "7", "6", "5", "1", "8", "3", "0", "2", "1", "3", "1", "2">>,
      applicant_user_id |-> <<"1", "6", "3", "4", "6", "3", "3", "1", "4", "8", "2", "1", "6", "1", "1", "5", "2", "1", "0">>,
      applicant_dept_id |-> <<"1", "4", "8", "2", "5", "3", "8", "2", "3", "7", "3", "1", "4", "4", "6", "5", "7", "9", "8">>,
      service_owner_id |-> <<"1", "4", "8", "2", "5", "5", "1", "2", "6", "8", "1", "3", "3", "0", "4", "4", "2", "3", "2">>,
      service_dept_id |-> <<"1", "4", "8", "2", "5", "3", "8", "2", "3", "7", "3", "1", "4", "4", "6", "5", "7", "9", "8">>,
      owner_james_id |-> <<"1", "6", "3", "4", "6", "3", "3", "1", "4", "8", "2", "1", "6", "1", "1", "5", "2", "1", "0">>,
      owner_liang_id |-> <<"1", "6", "7", "5", "7", "1", "7", "0", "1", "8", "6", "4", "5", "9", "5", "4", "5", "6", "3">>,
      owner_liz_id |-> <<"1", "8", "0", "4", "0", "4", "1", "6", "1", "3", "4", "3", "7", "0", "4", "2", "6", "9", "8">>,
      sales_org_id |-> <<"2", "8", "1", "6", "7", "6", "5", "1", "8", "3", "0", "2", "1", "3", "1", "2">>,
      trans_type_id |-> <<"1", "4", "7", "6", "7", "9", "0", "9", "5", "2", "6", "0", "7", "0", "8", "9", "1", "1", "7">>,
      customer_industry_id |-> <<"1", "5", "8", "0", "7", "2", "1", "8", "2", "5", "3", "3", "9", "9", "3", "2", "6", "7", "3">>,
      tax_category |-> [ok |-> TRUE, m |-> 0, e |-> 0],
      enterprise_nature |-> [ok |-> TRUE, m |-> 1, e |-> 0],
      license_type |-> [ok |-> TRUE, m |-> 3, e |-> 0],
      payment_way |-> <<"9", "9">>,
      customer_level_id |-> <<>>,
      searchcode_prefix |-> <<"A", "U", "T", "O">>,
      default_region_code |-> <<>>,
      parent_manage_org_id |-> <<>>,
      payment_field |-> <<"m", "e", "r", "c", "h", "a", "n", "t", "A", "p", "p", "l", "i", "e", "d", "D", "e", "t", "a", "i", "l", "!", "p", "a", "y", "w", "a", "y">>,
      plan_field |-> <<"m", "e", "r", "c", "h", "a", "n", "t", "C", "h", "a", "r", "a", "c", "t", "e", "r", "_", "_", "c", "u", "s", "t", "o", "m", "e", "r", "D", "e", "f", "i", "n", "e", "6">>,
      remark_field |-> <<"m", "e", "r", "c", "h", "a", "n", "t", "C", "h", "a", "r", "a", "c", "t", "e", "r", "_", "_", "c", "u", "s", "t", "o", "m", "e", "r", "D", "e", "f", "i", "n", "e", "7">>,
      usage_field |-> <<"l", "a", "r", "g", "e", "T", "e", "x", "t", "1">>,
      monthly_fee_field |-> <<"l", "a", "r", "g", "e", "T", "e", "x", "t", "3">>,
      attach_contact_records |-> FALSE],
     [system_source |-> <<"a", "u", "t", "o", "_", "c", "r", "m">>,
      bustype_id |-> <<"1", "7", "7", "9", "3", "9", "3", "1", "2", "2", "4", "7", "2", "5", "5", "8", "5", "9", "8">>,
      applicant_org_id |-> <<"2", "8", "1", "6", "7", "6", "5", "1", "8", "3", "0", "2", "1", "3", "1", "2">>,
      applicant_user_id |-> <<"1", "6", "3", "4", "6", "3", "3", "1", "4", "8", "2", "1", "6", "1", "1", "5", "2", "1", "0">>,
      applicant_dept_id |-> <<"1", "4", "8", "2", "5", "3", "8", "2", "3", "7", "3", "1", "4", "4", "6", "5", "7", "9", "8">>,
      service_owner_id |-> <<"1", "4", "8", "2", "5", "5", "1", "2", "6", "8", "1", "3", "3", "0", "4", "4", "2", "3", "2">>,
      service_dept_id |-> <<"1", "4", "8", "2", "5", "3", "8", "2", "3", "7", "3", "1", "4", "4", "6", "5", "7", "9", "8">>,
      owner_james_id |-> <<"1", "6", "3", "4", "6", "3", "3", "1", "4", "8", "2", "1", "6", "1", "1", "5", "2", "1", "0">>,
      owner_liang_id |-> <<"1", "6", "7", "5", "7", "1", "7", "0", "1", "8", "6", "4", "5", "9", "5", "4", "5", "6", "3">>,
      owner_liz_id |-> <<"1", "8", "0", "4", "0", "4", "1", "6", "1", "3", "4", "3", "7", "0", "4", "2", "6", "9", "8">>,
      sales_org_id |-> <<"2", "8", "1", "6", "7", "6", "5", "1", "8", "3", "0", "2", "1", "3", "1", "2">>,
      trans_type_id |-> <<"1", "4", "7", "6", "7", "9", "0", "9", "5", "2", "6", "0", "7", "0", "8", "9", "1", "1", "7">>,
      customer_industry_id |-> <<"1", "5", "8", "0", "7", "2", "1", "8", "2", "5", "3", "3", "9", "9", "3", "2", "6", "7", "3">>,
      tax_category |-> [ok |-> TRUE, m |-> 0, e |-> 0],
      enterprise_nature |-> [ok |-> TRUE, m |-> 1, e |-> 0],
      license_type |-> [ok |-> TRUE, m |-> 3, e |-> 0],
      payment_way |-> <<"9", "9">>,
      customer_level_id |-> <<"L", "1">>,
      searchcode_prefix |-> <<"A", "U", "T", "O">>,
      default_region_code |-> <<"M", "O">>,
      parent_manage_org_id |-> <<"P", "9">>,
      payment_field |-> <<"m", "e", "r", "c", "h", "a", "n", "t", "A", "p", "p", "l", "i", "e", "d", "D", "e", "t", "a", "i", "l", "!", "p", "a", "y", "w", "a", "y">>,
      plan_field |-> <<"m", "e", "r", "c", "h", "a", "n", "t", "C", "h", "a", "r", "a", "c", "t", "e", "r", "_", "_", "c", "u", "s", "t", "o", "m", "e", "r", "D", "e", "f", "i", "n", "e", "6">>,
      remark_field |-> <<"m", "e", "r", "c", "h", "a", "n", "t", "C", "h", "a", "r", "a", "c", "t", "e", "r", "_", "_", "c", "u", "s", "t", "o", "m", "e", "r", "D", "e", "f", "i", "n", "e", "7">>,
      usage_field |-> <<"l", "a", "r", "g", "e", "T", "e", "x", "t", "1">>,
      monthly_fee_field |-> <<"l", "a", "r", "g", "e", "T", "e", "x", "t", "3">>,
      attach_contact_records |-> TRUE],
     [system_source |-> <<"a", "u", "t", "o", "_", "c", "r", "m">>,
      bustype_id |-> <<"1", "7", "7", "9", "3", "9", "3", "1", "2", "2", "4", "7", "2", "5", "5", "8", "5", "9", "8">>,
      applicant_org_id |-> <<"2", "8", "1", "6", "7", "6", "5", "1", "8", "3", "0", "2", "1", "3", "1", "2">>,
      applicant_user_id |-> <<"1", "6", "3", "4", "6", "3", "3", "1", "4", "8", "2", "1", "6", "1", "1", "5", "2", "1", "0">>,
      applicant_dept_id |-> <<"1", "4", "8", "2", "5", "3", "8", "2", "3", "7", "3", "1", "4", "4", "6", "5", "7", "9", "8">>,
      service_owner_id |-> <<"1", "4", "8", "2", "5", "5", "1", "2", "6", "8", "1", "3", "3", "0", "4", "4", "2", "3", "2">>,
      service_dept_id |-> <<"1", "4", "8", "2", "5", "3", "8", "2", "3", "7", "3", "1", "4", "4", "6", "5", "7", "9", "8">>,
      owner_james_id |-> <<"1", "6", "3", "4", "6", "3", "3", "1", "4", "8", "2", "1", "6", "1", "1", "5", "2", "1", "0">>,
      owner_liang_id |-> <<"1", "6", "7", "5", "7", "1", "7", "0", "1", "8", "6", "4", "5", "9", "5", "4", "5", "6", "3">>,
      owner_liz_id |-> <<"1", "8", "0", "4", "0", "4", "1", "6", "1", "3", "4", "3", "7", "0", "4", "2", "6", "9", "8">>,
      sales_org_id |-> <<"2", "8", "1", "6", "7", "6", "5", "1", "8", "3", "0", "2", "1", "3", "1", "2">>,
      trans_type_id |-> <<"1", "4", "7", "6", "7", "9", "0", "9", "5", "2", "6", "0", "7", "0", "8", "9", "1", "1", "7">>,
      customer_industry_id |-> <<"1", "5", "8", "0", "7", "2", "1", "8", "2", "5", "3", "3", "9", "9", "3", "2", "6", "7", "3">>,
      tax_category |-> [ok |-> TRUE, m |-> 0, e |-> 0],
      enterprise_nature |-> [ok |-> TRUE, m |-> 1, e |-> 0],
      license_type |-> [ok |-> TRUE, m |-> 3, e |-> 0],
      payment_way |-> <<"9", "9">>,
      customer_level_id |-> <<>>,
      searchcode_prefix |-> <<"A", "U", "T", "O">>,
      default_region_code |-> <<>>,
      parent_manage_org_id |-> <<>>,
      payment_field |-> <<"m", "e", "r", "c", "h", "a", "n", "t", "C", "h", "a", "r", "a", "c", "t", "e", "r", "_", "_", "c", "u", "s", "t", "o", "m", "e", "r", "D", "e", "f", "i", "n", "e", "5">>,
      plan_field |-> <<"m", "e", "r", "c", "h", "a", "n", "t", "C", "h", "a", "r", "a", "c", "t", "e", "r", "_", "_", "c", "u", "s", "t", "o", "m", "e", "r", "D", "e", "f", "i", "n", "e", "6">>,
      remark_field |-> <<"m", "e", "r", "c", "h", "a", "n", "t", "C", "h", "a", "r", "a", "c", "t", "e", "r", "_", "_", "c", "u", "s", "t", "o", "m", "e", "r", "D", "e", "f", "i", "n", "e", "7">>,
      usage_field |-> <<"l", "a", "r", "g", "e", "T", "e", "x", "t", "1">>,
      monthly_fee_field |-> <<"l", "a", "r", "g", "e", "T", "e", "x", "t", "3">>,
      attach_contact_records |-> FALSE],
     [system_source |-> <<"a", "u", "t", "o", "_", "c", "r", "m">>,
      bustype_id |-> <<"1", "7", "7", "9", "3", "9", "3", "1", "2", "2", "4", "7", "2", "5", "5", "8", "5", "9", "8">>,
      applicant_org_id |-> <<"2", "8", "1", "6", "7", "6", "5", "1", "8", "3", "0", "2", "1", "3", "1", "2">>,
      applicant_user_id |-> <<"1", "6", "3", "4", "6", "3", "3", "1", "4", "8", "2", "1", "6", "1", "1", "5", "2", "1", "0">>,
      applicant_dept_id |-> <<"1", "4", "8", "2", "5", "3", "8", "2", "3", "7", "3", "1", "4", "4", "6", "5", "7", "9", "8">>,
      service_owner_id |-> <<"1", "4", "8", "2", "5", "5", "1", "2", "6", "8", "1", "3", "3", "0", "4", "4", "2", "3", "2">>,
      service_dept_id |-> <<"1", "4", "8", "2", "5", "3", "8", "2", "3", "7", "3", "1", "4", "4", "6", "5", "7", "9", "8">>,
      owner_james_id |-> <<"1", "6", "3", "4", "6", "3", "3", "1", "4", "8", "2", "1", "6", "1", "1", "5", "2", "1", "0">>,
      owner_liang_id |-> <<"1", "6", "7", "5", "7", "1", "7", "0", "1", "8", "6", "4", "5", "9", "5", "4", "5", "6", "3">>,
      owner_liz_id |-> <<"1", "8", "0", "4", "0", "4", "1", "6", "1", "3", "4", "3", "7", "0", "4", "2", "6", "9", "8">>,
      sales_org_id |-> <<"2", "8", "1", "6", "7", "6", "5", "1", "8", "3", "0", "2", "1", "3", "1", "2">>,
      trans_type_id |-> <<"1", "4", "7", "6", "7", "9", "0", "9", "5", "2", "6", "0", "7", "0", "8", "9", "1", "1", "7">>,
      customer_industry_id |-> <<"1", "5", "8", "0", "7", "2", "1", "8", "2", "5", "3", "3", "9", "9", "3", "2", "6", "7", "3">>,
      tax_category |-> [ok |-> TRUE, m |-> 0, e |-> 0],
      enterprise_nature |-> [ok |-> TRUE, m |-> 1, e |-> 0],
      license_type |-> [ok |-> TRUE, m |-> 3, e |-> 0],
      payment_way |-> <<"9", "9">>,
      customer_level_id |-> <<>>,
      searchcode_prefix |-> <<"A", "U", "T", "O">>,
      default_region_code |-> <<>>,
      parent_manage_org_id |-> <<>>,
      payment_field |-> <<"e", "x", "t", ".", "p", "a", "y", ".", "w", "a", "y">>,
      plan_field |-> <<"m", "e", "r", "c", "h", "a", "n", "t", "C", "h", "a", "r", "a", "c", "t", "e", "r", "_", "_", "c", "u", "s", "t", "o", "m", "e", "r", "D", "e", "f", "i", "n", "e", "6">>,
      remark_field |-> <<"m", "e", "r", "c", "h", "a", "n", "t", "C", "h", "a", "r", "a", "c", "t", "e", "r", "_", "_", "c", "u", "s", "t", "o", "m", "e", "r", "D", "e", "f", "i", "n", "e", "7">>,
      usage_field |-> <<"c", "u", "s", "t", "o", "m", "e", "r", "A", "d", "d", "A", "p", "p", "l", "y", "C", "h", "a", "r", "a", "c", "t", "e", "r", "_", "_", "u", "s", "a", "g", "e">>,
      monthly_fee_field |-> <<"l", "a", "r", "g", "e", "T", "e", "x", "t", "3">>,
      attach_contact_records |-> FALSE],
     [system_source |-> <<"a", "u", "t", "o", "_", "c", "r", "m">>,
      bustype_id |-> <<"1", "7", "7", "9", "3", "9", "3", "1", "2", "2", "4", "7", "2", "5", "5", "8", "5", "9", "8">>,
      applicant_org_id |-> <<"2", "8", "1", "6", "7", "6", "5", "1", "8", "3", "0", "2", "1", "3", "1", "2">>,
      applicant_user_id |-> <<"1", "6", "3", "4", "6", "3", "3", "1", "4", "8", "2", "1", "6", "1", "1", "5", "2", "1", "0">>,
      applicant_dept_id |-> <<"1", "4", "8", "2", "5", "3", "8", "2", "3", "7", "3", "1", "4", "4", "6", "5", "7", "9", "8">>,
      service_owner_id |-> <<"1", "4", "8", "2", "5", "5", "1", "2", "6", "8", "1", "3", "3", "0", "4", "4", "2", "3", "2">>,
      service_dept_id |-> <<"1", "4", "8", "2", "5", "3", "8", "2", "3", "7", "3", "1", "4", "4", "6", "5", "7", "9", "8">>,
      owner_james_id |-> <<"1", "6", "3", "4", "6", "3", "3", "1", "4", "8", "2", "1", "6", "1", "1", "5", "2", "1", "0">>,
      owner_liang_id |-> <<"1", "6", "7", "5", "7", "1", "7", "0", "1", "8", "6", "4", "5", "9", "5", "4", "5", "6", "3">>,
      owner_liz_id |-> <<"1", "8", "0", "4", "0", "4", "1", "6", "1", "3", "4", "3", "7", "0", "4", "2", "6", "9", "8">>,
      sales_org_id |-> <<"2", "8", "1", "6", "7", "6", "5", "1", "8", "3", "0", "2", "1", "3", "1", "2">>,
      trans_type_id |-> <<"1", "4", "7", "6", "7", "9", "0", "9", "5", "2", "6", "0", "7", "0", "8", "9", "1", "1", "7">>,
      customer_industry_id |-> <<"1", "5", "8", "0", "7", "2", "1", "8", "2", "5", "3", "3", "9", "9", "3", "2", "6", "7", "3">>,
      tax_category |-> [ok |-> TRUE, m |-> 0, e |-> 0],
      enterprise_nature |-> [ok |-> TRUE, m |-> 1, e |-> 0],
      license_type |-> [ok |-> TRUE, m |-> 3, e |-> 0],
      payment_way |-> <<"9", "9">>,
      customer_level_id |-> <<>>,
      searchcode_prefix |-> <<"A", "U", "T", "O">>,
      default_region_code |-> <<>>,
      parent_manage_org_id |-> <<>>,
      payment_field |-> <<"c", "u", "s", "t", "o", "m", "e", "r", "I", "n", "d", "u", "s", "t", "r", "y", ".", "c", "o", "d", "e">>,
      plan_field |-> <<"l", "a", "r", "g", "e", "T", "e", "x", "t", "2">>,
      remark_field |-> <<>>,
      usage_field |-> <<"l", "a", "r", "g", "e", "T", "e", "x", "t", "1">>,
      monthly_fee_field |-> <<"l", "a", "r", "g", "e", "T", "e", "x", "t", "3">>,
      attach_contact_records |-> FALSE]}

\* datetime.now() at two instants
ApplyClocks ==
    {[year |-> 2027, stamp |-> <<"2", "0", "2", "7", "0", "3", "0", "1", "0", "9", "3", "0", "0", "0">>, datetime |-> <<"2", "0", "2", "7", "-", "0", "3", "-", "0", "1", " ", "0", "9", ":", "3", "0", ":", "0", "0">>, date |-> <<"2", "0", "2", "7", "-", "0", "3", "-", "0", "1">>],
     [year |-> 2028, stamp |-> <<"2", "0", "2", "8", "0", "2", "2", "9", "2", "3", "5", "9", "5", "9">>, datetime |-> <<"2", "0", "2", "8", "-", "0", "2", "-", "2", "9", " ", "2", "3", ":", "5", "9", ":", "5", "9">>, date |-> <<"2", "0", "2", "8", "-", "0", "2", "-", "2", "9">>]}

\* the name lines of a briefing
ApplyNames ==
    {<<"u5BA2", "u6236", "u540D", "u7A31", ":", " ", "C", "0", "0", "1", "u9673", "u5148", "u751F">>,
     <<"u5BA2", "u6236", "u540D", "u7A31", ":", " ", "u9673", "u5148", "u751F">>}

\* the other lines of a briefing, in their order
ApplyLines ==
    <<<<"u806F", "u7E6B", "u96FB", "u8A71", ":", " ", "6", "6", "0", "0", "1", "2", "3", "4">>,
      <<"u5730", "u5740", ":", " ", "u6FB3", "u9580", "u9ED1", "u6C99", "u74B0">>,
      <<"u5B89", "u88DD", "u5167", "u5BB9", ":", " ", "R", "O", "9", "0", "0", "S">>,
      <<"u5099", "u8A3B", ":", " ", "u9031", "u672B", "u5B89", "u88DD">>,
      <<"u6708", "u8CBB", "u91D1", "u984D", ":", " ", "2", "8", "8">>,
      <<"u7E3D", "u91D1", "u984D", ":", " ", "2", "8", "8", "*", "2", "4", "=", "6", "9", "1", "2">>,
      <<"u8CA0", "u8CAC", "u4EBA", ":", " ", "L", "i", "z">>,
      <<"u4ED8", "u6B3E", "u65B9", "u5F0F", ":", " ", "u6708", "u8CBB">>>>

\* a briefing: a name line and any of the other lines, in their order
ApplyTexts ==
    {JoinLines(<<name>> \o SelectSeq(ApplyLines, LAMBDA l : l \in chosen)) :
        name \in ApplyNames, chosen \in SUBSET {ApplyLines[i] : i \in 1..Len(ApplyLines)}}

ApplyInit ==
    /\ applyText \in ApplyTexts
    /\ applySettings \in ApplySettings
    /\ applyNow \in ApplyClocks
    /\ applyParsed = <<>>
    /\ applyOut = <<>>
    /\ applyPc = "text"

\* run_submission, line 2731: parse_customer_text(text)
ParseForApply ==
    /\ applyPc = "text"
    /\ applyParsed' = parse_customer_text(applyText, applyNow.year)
    /\ applyPc' = IF applyParsed'.raised = "" THEN "parsed" ELSE "failed"
    /\ UNCHANGED <<applyText, applySettings, applyNow, applyOut, notApply>>

\* run_submission, line 2806: build_apply_payload(normalized, settings)
BuildApplyPayload ==
    /\ applyPc = "parsed"
    /\ applyOut' = build_apply_payload(applyParsed.normalized, applySettings, applyNow)
    /\ applyPc' = "built"
    /\ UNCHANGED <<applyText, applySettings, applyNow, applyParsed, notApply>>

ApplyNext == ParseForApply \/ BuildApplyPayload

ApplyIdle ==
    /\ applyText = <<>> /\ applySettings = <<>> /\ applyNow = <<>>
    /\ applyParsed = <<>> /\ applyOut = <<>> /\ applyPc = "idle"

(***************************************************************************)
(* The opportunity session cache of services/customer_submission.py:       *)
(* OPPORTUNITY_SESSION_CACHE, a module-level dict from token to snapshot.  *)
(* The dict is the sequence of its entries in insertion order; a removed   *)
(* entry stays in the sequence as a tombstone, as in the entry table of a  *)
(* CPython dict (no resize happens below six insertions).  No function of  *)
(* the module takes a lock.                                                *)
(***************************************************************************)
SESSION_TTL_SECONDS == 3600

MaxSessions == 2

\* the clock of the model stops here
MaxClock == 7202

\* the amounts time.time() advances by between two calls
ClockSteps == {SESSION_TTL_SECONDS, SESSION_TTL_SECONDS + 1}

\* uuid4().hex of the n-th session
TokenOf(n) == <<"t", DigitChar(n)>>

\* the tokens the caller hands in: issued or not, bare or padded with a blank
TokenArgs == UNION {{TokenOf(n), <<" ">> \o TokenOf(n)} : n \in 1..MaxSessions}

SessionOutcomes == {"success", "failed", "skipped"}

\* OPPORTUNITY_SESSION_CACHE.get(token) is truthy
CacheHas(cache, token) == \E i \in DOMAIN cache : cache[i].state = "live" /\ cache[i].token = token

\* OPPORTUNITY_SESSION_CACHE.pop(token, None); how names why the entry went
CachePop(cache, token, how) ==
    [i \in DOMAIN cache |->
        IF cache[i].state = "live" /\ cache[i].token = token
        THEN [cache[i] EXCEPT !.state = how] ELSE cache[i]]

\* len(OPPORTUNITY_SESSION_CACHE)
CacheLen(cache) == Cardinality({i \in DOMAIN cache : cache[i].state = "live"})

\* a sweep that takes an entry already at the TTL itself
ExpiredAtTtl(entry, now) == now - entry.createdAt >= SESSION_TTL_SECONDS

\* the condition of line 561
SessionExpired(entry, now) == now - entry.createdAt > SESSION_TTL_SECONDS

_purge_opportunity_sessions(cache, now) ==
    [i \in DOMAIN cache |->
        IF cache[i].state = "live" /\ SessionExpired(cache[i], now)
        THEN [cache[i] EXCEPT !.state = "expired"] ELSE cache[i]]

CacheStore(cache, token, now) == Append(cache, [token |-> token, createdAt |-> now, state |-> "live"])

_remember_opportunity_session(cache, now, token) ==
    CacheStore(_purge_opportunity_sessions(cache, now), token, now)

\* the cache after the sweep, and whether the entry is there (if not, the
\* function raises LookupError)
_get_opportunity_session(cache, now, token) ==
    [cache |-> _purge_opportunity_sessions(cache, now),
     found |-> CacheHas(_purge_opportunity_sessions(cache, now), token)]

\* the lookup is by the stripped token, the removal by the token as given;
\* outcome is what _create_opportunity_for_customer returned
CreatedFrom(got, token, outcome) ==
    IF ~got.found THEN [cache |-> got.cache, result |-> "LookupError"]
    ELSE [cache |-> IF outcome = "success" THEN CachePop(got.cache, token, "consumed") ELSE got.cache,
          result |-> outcome]

create_opportunity_from_session(cache, now, token, outcome) ==
    CreatedFrom(_get_opportunity_session(cache, now, Strip(token)), token, outcome)

\* the number of the session a token was issued for (0: none)
SessionOf(token) ==
    IF \E n \in 1..MaxSessions : TokenOf(n) = token
    THEN CHOOSE n \in 1..MaxSessions : TokenOf(n) = token ELSE 0

\* the state of the entry of a token before a call: "none" | "live" | ...
EntryState(cache, token) ==
    IF \E i \in DOMAIN cache : cache[i].token = token
    THEN cache[CHOOSE i \in DOMAIN cache : cache[i].token = token].state ELSE "none"

EntryCreatedAt(cache, token) ==
    IF \E i \in DOMAIN cache : cache[i].token = token
    THEN cache[CHOOSE i \in DOMAIN cache : cache[i].token = token].createdAt ELSE 0

\* the last call: the state of the entry before it, createdAt of the entry
\* successful creations are counted as none, one, or more than one
OnceMore(count) == IF count < 2 THEN count + 1 ELSE count

NoCall == [op |-> "", before |-> "none", createdAt |-> 0, result |-> ""]

IdleRequest == [pc |-> "idle", op |-> "", token |-> <<>>, now |-> 0, pos |-> 1, size |-> 0, left |-> 0, expired |-> <<>>, result |-> ""]

MaxThreads == 3

\* how many requests the model lets run at the same time
MaxConcurrent == 2

\* the server gives every request a thread of its own
Threads == 1..MaxThreads

SessInit ==
    /\ sessClock = 0
    /\ sessCache = <<>>
    /\ sessCreated = [n \in 1..MaxSessions |-> 0]
    /\ sessLast = NoCall
    /\ sessReq = [t \in Threads |-> IdleRequest]

\* time passes; the caller has taken the result of the last call
Tick(d) ==
    /\ sessClock + d <= MaxClock
    /\ sessClock' = sessClock + d
    /\ sessLast' = NoCall
    /\ UNCHANGED <<sessCache, sessCreated, sessReq, notSess>>

(* One request at a time: every call runs from its first to its last line. *)
\* run_submission reaches line 2900
Remember ==
    /\ Len(sessCache) < MaxSessions
    /\ sessCache' = _remember_opportunity_session(sessCache, sessClock, TokenOf(Len(sessCache) + 1))
    /\ sessLast' = [op |-> "remember", before |-> "none", createdAt |-> sessClock, result |-> "token"]
    /\ UNCHANGED <<sessClock, sessCreated, sessReq, notSess>>

Lookup(token) ==
    /\ sessCache' = _get_opportunity_session(sessCache, sessClock, token).cache
    /\ sessLast' = [op |-> "get", before |-> EntryState(sessCache, token),
                    createdAt |-> EntryCreatedAt(sessCache, token),
                    result |-> IF CacheHas(sessCache', token) THEN "entry" ELSE "LookupError"]
    /\ UNCHANGED <<sessClock, sessCreated, sessReq, notSess>>

CreateFromSession(token, outcome) ==
    /\ sessCache' = create_opportunity_from_session(sessCache, sessClock, token, outcome).cache
    /\ sessLast' = [op |-> "create", before |-> EntryState(sessCache, Strip(token)),
                    createdAt |-> EntryCreatedAt(sessCache, Strip(token)),
                    result |-> create_opportunity_from_session(sessCache, sessClock, token, outcome).result]
    /\ sessCreated' = IF sessLast'.result = "success"
                      THEN [sessCreated EXCEPT ![SessionOf(Strip(token))] = OnceMore(@)] ELSE sessCreated
    /\ UNCHANGED <<sessClock, sessReq, notSess>>

SessNext ==
    \/ \E d \in ClockSteps : Tick(d)
    \/ Remember
    \/ \E token \in TokenArgs : Lookup(token)
    \/ \E token \in TokenArgs, outcome \in SessionOutcomes : CreateFromSession(token, outcome)

(* Concurrent requests: the server runs each request in a thread of its    *)
(* own (app.run), and the interpreter may switch threads between any two   *)
(* dict operations.  One action per dict operation.                        *)
\* a request enters _purge_opportunity_sessions: now = time.time(), and
\* the iterator over the items is created
BeginCall(t, op, token) ==
    /\ sessReq[t].pc = "idle"
    /\ \A u \in 1..(t - 1) : sessReq[u].pc # "idle"
    /\ Cardinality({u \in Threads : sessReq[u].pc \notin {"idle", "done"}}) < MaxConcurrent
    /\ op = "remember" => Len(sessCache) < MaxSessions /\ token = <<>>
    /\ op = "create" => token \in TokenArgs
    /\ sessReq' = [sessReq EXCEPT ![t] =
           [pc |-> "sweep", op |-> op, token |-> token, now |-> sessClock, pos |-> 1,
            size |-> CacheLen(sessCache), left |-> CacheLen(sessCache), expired |-> <<>>, result |-> ""]]
    /\ UNCHANGED <<sessClock, sessCache, sessCreated, sessLast, notSess>>

\* the request has returned or raised
Returned(r, result) == [IdleRequest EXCEPT !.pc = "done", !.op = r.op, !.token = r.token, !.result = result]

\* the index of the next entry the iterator yields (0: none left)
NextLive(cache, pos) ==
    IF \E i \in pos..Len(cache) : cache[i].state = "live"
    THEN SetMin({i \in pos..Len(cache) : cache[i].state = "live"}) ELSE 0

\* one step of the iteration of line 560: the iterator raises RuntimeError
\* when the dict changed size, or yields more items than it held at first
Swept(r, cache) ==
    IF CacheLen(cache) # r.size THEN Returned(r, "RuntimeError")
    ELSE IF NextLive(cache, r.pos) = 0 THEN [r EXCEPT !.pc = "evict"]
    ELSE IF r.left = 0 THEN Returned(r, "RuntimeError")
    ELSE [r EXCEPT !.pos = NextLive(cache, r.pos) + 1, !.left = @ - 1,
                   !.expired = IF SessionExpired(cache[NextLive(cache, r.pos)], r.now)
                               THEN Append(@, cache[NextLive(cache, r.pos)].token) ELSE @]

SweepStep(t) ==
    /\ sessReq[t].pc = "sweep"
    /\ sessReq' = [sessReq EXCEPT ![t] = Swept(sessReq[t], sessCache)]
    /\ UNCHANGED <<sessClock, sessCache, sessCreated, sessLast, notSess>>

\* the loop of lines 563-564, one pop at a time
EvictStep(t) ==
    /\ sessReq[t].pc = "evict"
    /\ IF sessReq[t].expired = <<>>
       THEN /\ sessReq' = [sessReq EXCEPT ![t].pc = "act"]
            /\ UNCHANGED sessCache
       ELSE /\ sessCache' = CachePop(sessCache, Head(sessReq[t].expired), "expired")
            /\ sessReq' = [sessReq EXCEPT ![t].expired = Tail(@)]
    /\ UNCHANGED <<sessClock, sessCreated, sessLast, notSess>>

\* lines 572-578: the entry is stored with createdAt = time.time()
StoreStep(t) ==
    /\ sessReq[t].pc = "act" /\ sessReq[t].op = "remember"
    /\ Len(sessCache) < MaxSessions
    /\ sessCache' = CacheStore(sessCache, TokenOf(Len(sessCache) + 1), sessClock)
    /\ sessReq' = [sessReq EXCEPT ![t] =
           Returned([@ EXCEPT !.token = TokenOf(Len(sessCache) + 1)], "token")]
    /\ UNCHANGED <<sessClock, sessCreated, sessLast, notSess>>

\* lines 583-586
GetStep(t) ==
    /\ sessReq[t].pc = "act" /\ sessReq[t].op = "create"
    /\ sessReq' = [sessReq EXCEPT ![t] =
           IF CacheHas(sessCache, Strip(@.token)) THEN [@ EXCEPT !.pc = "creating"]
           ELSE Returned(@, "LookupError")]
    /\ UNCHANGED <<sessClock, sessCache, sessCreated, sessLast, notSess>>

\* lines 816-822: the remote creation answers
CreateStep(t, outcome) ==
    /\ sessReq[t].pc = "creating"
    /\ sessReq' = [sessReq EXCEPT ![t] =
           IF outcome = "success" THEN [@ EXCEPT !.pc = "consume"] ELSE Returned(@, outcome)]
    /\ sessCreated' = IF outcome = "success"
                      THEN [sessCreated EXCEPT ![SessionOf(Strip(sessReq[t].token))] = OnceMore(@)]
                      ELSE sessCreated
    /\ UNCHANGED <<sessClock, sessCache, sessLast, notSess>>

\* lines 823-825
ConsumeStep(t) ==
    /\ sessReq[t].pc = "consume"
    /\ sessCache' = CachePop(sessCache, sessReq[t].token, "consumed")
    /\ sessReq' = [sessReq EXCEPT ![t] = Returned(@, "success")]
    /\ UNCHANGED <<sessClock, sessCreated, sessLast, notSess>>

ThreadsNext ==
    \/ \E d \in ClockSteps : Tick(d)
    \/ \E t \in Threads : BeginCall(t, "remember", <<>>)
    \/ \E t \in Threads, token \in TokenArgs : BeginCall(t, "create", token)
    \/ \E t \in Threads : SweepStep(t)
    \/ \E t \in Threads : EvictStep(t)
    \/ \E t \in Threads : StoreStep(t)
    \/ \E t \in Threads : GetStep(t)
    \/ \E t \in Threads, outcome \in SessionOutcomes : CreateStep(t, outcome)
    \/ \E t \in Threads : ConsumeStep(t)

SessIdle ==
    /\ sessClock = 0 /\ sessCache = <<>>
    /\ sessCreated = [n \in 1..MaxSessions |-> 0]
    /\ sessLast = NoCall
    /\ sessReq = [t \in Threads |-> IdleRequest]

(***************************************************************************)
(* The label caches of services/customer_submission.py: _STAGE_CACHE and   *)
(* _TRANS_TYPE_CACHE, module-level dicts from lower-cased label to id,     *)
(* filled from the records client.get_opportunities returns.               *)
(***************************************************************************)
\* _first_non_empty(*values): the first value that is not blank, stripped
\* (<<>> stands for None)
RECURSIVE _first_non_empty(_)
_first_non_empty(values) ==
    IF values = <<>> THEN <<>>
    ELSE IF Strip(Head(values)) # <<>> THEN Strip(Head(values))
    ELSE _first_non_empty(Tail(values))

\* a record of the remote list: the fields the two caches read
OpptRecord(stageIds, stageNames, transIds, transNames) ==
    [opptStage |-> stageIds[1], stage |-> stageIds[2], opptStageId |-> stageIds[3],
     opptStage_name |-> stageNames[1], stageName |-> stageNames[2],
     opptTransType |-> transIds[1], bustype |-> transIds[2], transType |-> transIds[3],
     opptTransType_name |-> transNames[1], bustype_name |-> transNames[2],
     transType_name |-> transNames[3]]

RecordPool ==
    { OpptRecord(<<<<"1">>, <<>>, <<>>>>, <<<<"W", "o", "n">>, <<>>>>,
                 <<<<"7">>, <<>>, <<>>>>, <<<<"R", "e", "n", "t">>, <<>>, <<>>>>),
      OpptRecord(<<<<>>, <<"2">>, <<>>>>, <<<<" ">>, <<"w", "o", "n">>>>,
                 <<<<" ">>, <<"8">>, <<>>>>, <<<<>>, <<"R", "E", "N", "T">>, <<>>>>),
      OpptRecord(<<<<>>, <<>>, <<"3">>>>, <<<<>>, <<>>>>,
                 <<<<>>, <<>>, <<"9">>>>, <<<<>>, <<>>, <<>>>>),
      OpptRecord(<<<<>>, <<>>, <<>>>>, <<<<"L", "o", "s", "t">>, <<>>>>,
                 <<<<>>, <<>>, <<>>>>, <<<<>>, <<>>, <<"B", "u", "y">>>>),
      OpptRecord(<<<<>>, <<>>, <<"4">>>>, <<<<>>, <<"L", "o", "s", "t", " ">>>>,
                 <<<<>>, <<>>, <<"5">>>>, <<<<>>, <<>>, <<" ", "B", "u", "y">>>>) }

MaxRecords == 2

\* what client.get_opportunities answers: an exception, or a record list
RemoteAnswers == {[error |-> TRUE, records |-> <<>>]} \cup {[error |-> FALSE, records |-> rs] : rs \in SeqsUpTo(RecordPool, MaxRecords)}

StageIdOf(record) == _first_non_empty(<<record.opptStage, record.stage, record.opptStageId>>)

StageNameOf(record) == _first_non_empty(<<record.opptStage_name, record.stageName>>)

TransIdOf(record) == _first_non_empty(<<record.opptTransType, record.bustype, record.transType>>)

TransNameOf(record) == _first_non_empty(<<record.opptTransType_name, record.bustype_name, record.transType_name>>)

\* lines 721-724 / 848-851: a labelled record is stored unless its label
\* is already there
WithLabel(cache, id, name) ==
    IF id # <<>> /\ name # <<>> /\ ~HasKey(cache, Lower(name))
    THEN Append(cache, [k |-> Lower(name), v |-> id]) ELSE cache

RECURSIVE StagesAdded(_, _)
StagesAdded(cache, records) ==
    IF records = <<>> THEN cache
    ELSE StagesAdded(WithLabel(cache, StageIdOf(Head(records)), StageNameOf(Head(records))), Tail(records))

RECURSIVE TransTypesAdded(_, _)
TransTypesAdded(cache, records) ==
    IF records = <<>> THEN cache
    ELSE TransTypesAdded(WithLabel(cache, TransIdOf(Head(records)), TransNameOf(Head(records))), Tail(records))

\* a cache that answers every use with a remote lookup
NeverServed(cache) == FALSE

\* lines 704 / 830: the cache is truthy, the function returns at once
CacheServed(cache) == cache # <<>>

\* the cache after the call, and whether the remote lookup was issued
_ensure_stage_cache(cache, answer) ==
    IF CacheServed(cache) THEN [cache |-> cache, looked |-> FALSE]
    ELSE IF answer.error THEN [cache |-> cache, looked |-> TRUE]
    ELSE [cache |-> StagesAdded(cache, answer.records), looked |-> TRUE]

_ensure_trans_type_cache(cache, answer) ==
    IF CacheServed(cache) THEN [cache |-> cache, looked |-> FALSE]
    ELSE IF answer.error THEN [cache |-> cache, looked |-> TRUE]
    ELSE [cache |-> TransTypesAdded(cache, answer.records), looked |-> TRUE]

NoUse == [which |-> "", looked |-> FALSE, before |-> <<>>, answer |-> [error |-> TRUE, records |-> <<>>]]

LblInit == lblStage = <<>> /\ lblTrans = <<>> /\ lblLast = NoUse

\* a use of the stage cache (_find_stage_id_by_label, _extract_cached_stage_any)
EnsureStage(answer) ==
    /\ lblStage' = _ensure_stage_cache(lblStage, answer).cache
    /\ lblLast' = [which |-> "stage", looked |-> _ensure_stage_cache(lblStage, answer).looked,
                   before |-> lblStage, answer |-> answer]
    /\ UNCHANGED <<lblTrans, notLbl>>

\* a use of the transaction type cache (_find_trans_type_id, _resolve_trans_type_value)
EnsureTransType(answer) ==
    /\ lblTrans' = _ensure_trans_type_cache(lblTrans, answer).cache
    /\ lblLast' = [which |-> "trans", looked |-> _ensure_trans_type_cache(lblTrans, answer).looked,
                   before |-> lblTrans, answer |-> answer]
    /\ UNCHANGED <<lblStage, notLbl>>

LblNext ==
    \/ \E answer \in RemoteAnswers : EnsureStage(answer)
    \/ \E answer \in RemoteAnswers : EnsureTransType(answer)

LblIdle == lblStage = <<>> /\ lblTrans = <<>> /\ lblLast = NoUse

(***************************************************************************)
(* run_submission of services/customer_submission.py, and the later        *)
(* create_opportunity_from_session with the token it issued: the remote    *)
(* calls they make, in order.  One action per remote call, with the        *)
(* answer of the remote system drawn from the kinds the code tells apart.  *)
(***************************************************************************)
\* customer_duplicate_check: RuntimeError, no duplicate, duplicates
DuplicateAnswers == {"error", "none", "duplicates"}

\* submit_customer_application: a RuntimeError whose message holds the
\* pending-application code, the payment-pending code, or neither; or a
\* response [code ok, data.id present, a customer id present]
SubmitAnswers ==
    {[error |-> e, ok |-> FALSE, id |-> FALSE, customer |-> FALSE] : e \in {"pending", "payment", "other"}}
        \cup {[error |-> "", ok |-> o, id |-> i, customer |-> c] : o, i, c \in BOOLEAN}

\* audit_customer_application: RuntimeError, code 200, another code
AuditAnswers == {"error", "passed", "refused"}

\* check_opportunity_repeat: RuntimeError for a missing rule, another
\* RuntimeError, no duplicate, duplicates
RepeatAnswers == {"rule_missing", "error", "none", "duplicates"}

\* create_opportunity: RuntimeError, code 200, another code
CreateAnswers == {"error", "created", "refused"}

NoCalls == [duplicate |-> 0, submit |-> 0, audit |-> 0, repeat |-> 0, create |-> 0]

\* run_submission(text, skip_audit=...) of a text with or without
\* opportunity fields, under CFG_CREATE_OPPORTUNITY set or not
RunInputs == [skip_audit : BOOLEAN, context : BOOLEAN, create_opportunity : BOOLEAN]

RunInit ==
    /\ runIn \in RunInputs
    /\ runPc = "duplicate"
    /\ runCalls = NoCalls
    /\ runRetry = FALSE
    /\ runAudit = "none"
    /\ runResponse = [id |-> FALSE, customer |-> FALSE]
    /\ runSession = "none"
    /\ runOpportunity = "none"

\* lines 2782-2801 and 2817-2829
DuplicateCheck(answer) ==
    /\ runPc = "duplicate"
    /\ runCalls' = [runCalls EXCEPT !.duplicate = @ + 1]
    /\ runPc' = IF answer = "duplicates" THEN "returned" ELSE "submit"
    /\ UNCHANGED <<runIn, runRetry, runAudit, runResponse, runSession, runOpportunity, notRun>>

\* where run_submission goes after the answer to a submit: lines 2807-2869
AfterSubmit(answer, retry) ==
    IF answer.error = "pending" /\ ~retry THEN "regenerate"
    ELSE IF answer.error = "payment" /\ ~retry THEN "submit"
    ELSE IF answer.error # "" THEN "returned"
    ELSE IF ~answer.ok THEN "returned"
    ELSE "audit"

\* lines 2806-2869: _do_submit, first or second time
Submit(answer) ==
    /\ runPc = "submit"
    /\ runCalls' = [runCalls EXCEPT !.submit = @ + 1]
    /\ runPc' = AfterSubmit(answer, runRetry)
    /\ runRetry' = (runRetry \/ answer.error \in {"pending", "payment"})
    /\ runResponse' = [id |-> answer.id, customer |-> answer.customer]
    /\ UNCHANGED <<runIn, runAudit, runSession, runOpportunity, notRun>>

\* lines 2812-2816, 2841-2844: _apply_new_customer_code gave a new code or not
Regenerate(fresh) ==
    /\ runPc = "regenerate"
    /\ runPc' = IF fresh THEN "duplicate" ELSE "returned"
    /\ UNCHANGED <<runIn, runCalls, runRetry, runAudit, runResponse, runSession, runOpportunity, notRun>>

\* the customer id _create_opportunity_for_customer finds at lines
\* 2521-2528; _lookup_customer_id_by_code adds none
CustomerKnown(response) == response.customer \/ response.id

\* lines 2516-2530: why the creation is skipped before any remote call
SkippedEarly(context, audit_passed, response) ==
    ~context \/ ~audit_passed \/ ~CustomerKnown(response)

\* lines 2873-2906 without the remote call: the audit is skipped on
\* request, or for want of an application id; then the session is stored
AuditSkipped ==
    /\ runPc = "audit"
    /\ runIn.skip_audit \/ ~runResponse.id
    /\ runAudit' = IF runIn.skip_audit THEN "skipped" ELSE "missing"
    /\ runSession' = "live"
    /\ runPc' = IF runIn.create_opportunity /\ ~SkippedEarly(runIn.context, runIn.skip_audit, runResponse)
                THEN "repeat" ELSE "returned"
    /\ UNCHANGED <<runIn, runCalls, runRetry, runResponse, runOpportunity, notRun>>

\* lines 2884-2906: audit_customer_application, then the session is stored
Audit(answer) ==
    /\ runPc = "audit"
    /\ ~runIn.skip_audit /\ runResponse.id
    /\ runCalls' = [runCalls EXCEPT !.audit = @ + 1]
    /\ runAudit' = IF answer = "passed" THEN "passed" ELSE "failed"
    /\ runSession' = "live"
    /\ runPc' = IF runIn.create_opportunity /\ ~SkippedEarly(runIn.context, answer = "passed", runResponse)
                THEN "repeat" ELSE "returned"
    /\ UNCHANGED <<runIn, runRetry, runResponse, runOpportunity, notRun>>

\* lines 2665-2699: check_opportunity_repeat
OpportunityRepeatCheck(answer) ==
    /\ runPc \in {"repeat", "session_repeat"}
    /\ runCalls' = [runCalls EXCEPT !.repeat = OnceMore(@)]
    /\ runPc' = IF answer \in {"rule_missing", "none"}
                THEN (IF runPc = "repeat" THEN "create" ELSE "session_create")
                ELSE "returned"
    /\ UNCHANGED <<runIn, runRetry, runAudit, runResponse, runSession, runOpportunity, notRun>>

\* lines 2700-2721, and 823-824 when the call came with the session token
OpportunityCreate(answer) ==
    /\ runPc \in {"create", "session_create"}
    /\ runCalls' = [runCalls EXCEPT !.create = OnceMore(@)]
    /\ runOpportunity' = IF answer = "created" THEN "created" ELSE runOpportunity
    /\ runSession' = IF runPc = "session_create" /\ answer = "created" THEN "consumed" ELSE runSession
    /\ runPc' = "returned"
    /\ UNCHANGED <<runIn, runRetry, runAudit, runResponse, notRun>>

\* lines 810-822: create_opportunity_from_session(token) with the token of
\* this submission: _create_opportunity_for_customer with audit_passed=True
CreateFromToken ==
    /\ runPc = "returned" /\ runSession = "live"
    /\ runPc' = IF SkippedEarly(runIn.context, TRUE, runResponse) THEN "returned" ELSE "session_repeat"
    /\ UNCHANGED <<runIn, runCalls, runRetry, runAudit, runResponse, runSession, runOpportunity, notRun>>

RunNext ==
    \/ \E answer \in DuplicateAnswers : DuplicateCheck(answer)
    \/ \E answer \in SubmitAnswers : Submit(answer)
    \/ \E fresh \in BOOLEAN : Regenerate(fresh)
    \/ AuditSkipped
    \/ \E answer \in AuditAnswers : Audit(answer)
    \/ \E answer \in RepeatAnswers : OpportunityRepeatCheck(answer)
    \/ \E answer \in CreateAnswers : OpportunityCreate(answer)
    \/ CreateFromToken

RunIdle ==
    /\ runIn = [skip_audit |-> FALSE, context |-> FALSE, create_opportunity |-> FALSE]
    /\ runPc = "idle"
    /\ runCalls = NoCalls
    /\ runRetry = FALSE
    /\ runAudit = "none"
    /\ runResponse = [id |-> FALSE, customer |-> FALSE]
    /\ runSession = "none"
    /\ runOpportunity = "none"

(***************************************************************************)
(* _lookup_customer_id_by_code of services/customer_submission.py: the     *)
(* retry loop that resolves a customer id from a customer code.            *)
(***************************************************************************)
MaxRetries == 4

\* the follow-up records of the remote system: [customerCode, customerId]
FollowupPool ==
    { [customerCode |-> <<"C", "1">>, customerId |-> <<"9", "1">>],
      [customerCode |-> <<"c", "2">>, customerId |-> <<"9", "2">>],
      [customerCode |-> <<"C", "1">>, customerId |-> <<>>] }

\* the customer codes asked for; <<>> stands for None and for ""
LookupCodes == {<<>>, <<"C", "1">>, <<"C", "2">>, <<"C", "3">>}

\* _search_customer_id: its body ends with the nested _match_record; the
\* queries that follow belong to _extract_customer_id and come after its
\* last return.  It asks the remote system nothing and returns None.
_search_customer_id(customer_code, remote) == <<>>

\* range(max(retries, 1))
AttemptsOf(retries) == IF retries > 1 THEN retries ELSE 1

LkInit ==
    /\ lkCode \in LookupCodes
    /\ lkRetries \in (-1)..MaxRetries
    /\ lkRemote \in SUBSET FollowupPool
    /\ lkAttempts = 0
    /\ lkSleeps = 0
    /\ lkRet = <<>>
    /\ lkPc = "called"

\* lines 592-593
ReturnWithoutCode ==
    /\ lkPc = "called" /\ lkCode = <<>>
    /\ lkPc' = "returned"
    /\ UNCHANGED <<lkCode, lkRetries, lkRemote, lkAttempts, lkSleeps, lkRet, notLk>>

\* lines 594-597: one attempt
SearchAttempt ==
    /\ lkPc \in {"called", "slept"} /\ lkCode # <<>>
    /\ lkAttempts < AttemptsOf(lkRetries)
    /\ lkAttempts' = lkAttempts + 1
    /\ lkRet' = _search_customer_id(lkCode, lkRemote)
    /\ lkPc' = IF lkRet' # <<>> THEN "returned" ELSE "searched"
    /\ UNCHANGED <<lkCode, lkRetries, lkRemote, lkSleeps, notLk>>

\* line 598: time.sleep(1.0)
SleepStep ==
    /\ lkPc = "searched"
    /\ lkSleeps' = lkSleeps + 1
    /\ lkPc' = "slept"
    /\ UNCHANGED <<lkCode, lkRetries, lkRemote, lkAttempts, lkRet, notLk>>

\* line 599
ReturnNone ==
    /\ lkPc = "slept" /\ lkAttempts = AttemptsOf(lkRetries)
    /\ lkPc' = "returned"
    /\ UNCHANGED <<lkCode, lkRetries, lkRemote, lkAttempts, lkSleeps, lkRet, notLk>>

LkNext == ReturnWithoutCode \/ SearchAttempt \/ SleepStep \/ ReturnNone

LkIdle ==
    /\ lkCode = <<>> /\ lkRetries = 0 /\ lkRemote = {} /\ lkAttempts = 0
    /\ lkSleeps = 0 /\ lkRet = <<>> /\ lkPc = "idle"

(***************************************************************************)
(* _extract_upcoming_task_date of app.py: the date of the next task of a   *)
(* customer.  A date is its day number; 0 stands for a field that is       *)
(* missing or that _parse_follow_date cannot read.                         *)
(***************************************************************************)
MaxTasks == 3

\* date.today() of the caller
ReferenceDay == 5

TaskRecord(startDate, planDate, endDate, ower_name) ==
    [startDate |-> startDate, planDate |-> planDate, endDate |-> endDate, ower_name |-> ower_name]

TaskPool ==
    { TaskRecord(3, 0, 0, <<"L", "i", "z">>),
      TaskRecord(0, 4, 9, <<>>),
      TaskRecord(5, 0, 0, <<>>),
      TaskRecord(0, 0, 6, <<"J", "o">>),
      TaskRecord(7, 2, 0, <<"L", "i", "z", "2">>),
      TaskRecord(8, 0, 0, <<>>),
      TaskRecord(0, 0, 0, <<"L", "i", "z">>) }

\* owner_keyword: None or a name
OwnerKeywords == {<<>>, <<"L", "i", "z">>}

\* max_gap_days: None (-1) or a number of days
GapDays == {-1, 2}

\* lines 1724-1728: the first of startDate, planDate, endDate that parses
TaskDateOf(task) ==
    IF task.startDate # 0 THEN task.startDate
    ELSE IF task.planDate # 0 THEN task.planDate
    ELSE task.endDate

\* lines 1731-1734: the task is left out
BeyondGap(task, reference_date, max_gap_days) ==
    max_gap_days # -1 /\ TaskDateOf(task) - reference_date > max_gap_days

\* lines 1736-1738
IsOwnerTask(task, owner_keyword) ==
    owner_keyword # <<>> /\ Contains(task.ower_name, owner_keyword)

\* the dates of one of the four lists of lines 1739-1748
TaskDates(task_records, reference_date, owner_keyword, max_gap_days, owner, future) ==
    {TaskDateOf(task_records[i]) : i \in
        {j \in DOMAIN task_records :
            /\ TaskDateOf(task_records[j]) # 0
            /\ ~BeyondGap(task_records[j], reference_date, max_gap_days)
            /\ IsOwnerTask(task_records[j], owner_keyword) = owner
            /\ (TaskDateOf(task_records[j]) >= reference_date) = future}}

\* lines 1750-1760 over the four lists
UpcomingOf(owner_future, general_future, owner_past, general_past) ==
    IF owner_future # {} THEN SetMin(owner_future)
    ELSE IF general_future # {} THEN SetMin(general_future)
    ELSE IF owner_past # {} THEN SetMax(owner_past)
    ELSE IF general_past # {} THEN SetMax(general_past)
    ELSE 0

_extract_upcoming_task_date(task_records, reference_date, owner_keyword, max_gap_days) ==
    UpcomingOf(TaskDates(task_records, reference_date, owner_keyword, max_gap_days, TRUE, TRUE),
               TaskDates(task_records, reference_date, owner_keyword, max_gap_days, FALSE, TRUE),
               TaskDates(task_records, reference_date, owner_keyword, max_gap_days, TRUE, FALSE),
               TaskDates(task_records, reference_date, owner_keyword, max_gap_days, FALSE, FALSE))

TaskInit ==
    /\ taskRecords \in SeqsUpTo(TaskPool, MaxTasks)
    /\ taskOwner \in OwnerKeywords
    /\ taskGap \in GapDays
    /\ taskRet = 0
    /\ taskPc = "called"

ExtractUpcomingTaskDate ==
    /\ taskPc = "called"
    /\ taskRet' = _extract_upcoming_task_date(taskRecords, ReferenceDay, taskOwner, taskGap)
    /\ taskPc' = "returned"
    /\ UNCHANGED <<taskRecords, taskOwner, taskGap, notTask>>

TaskNext == ExtractUpcomingTaskDate

TaskIdle == taskRecords = <<>> /\ taskOwner = <<>> /\ taskGap = -1 /\ taskRet = 0 /\ taskPc = "idle"

(***************************************************************************)
(* _assign_field of services/customer_submission.py on its own: a target   *)
(* mapping that already holds something, a field code, a value.            *)
(***************************************************************************)
\* an entry of a mapping
KeyValue(key, value) == [k |-> key, v |-> value]

\* the target mappings: empty, holding mappings along a.b, holding a text
\* or a list where the path goes on, holding the flat key
AssignTargets ==
    { <<>>,
      <<KeyValue(<<"a">>, JMap(<<>>))>>,
      <<KeyValue(<<"a">>, JMap(<<KeyValue(<<"b">>, JStr(<<"o", "l", "d">>))>>))>>,
      <<KeyValue(<<"a">>, JMap(<<KeyValue(<<"b">>, JMap(<<KeyValue(<<"c">>, JStr(<<"o", "l", "d">>))>>))>>))>>,
      <<KeyValue(<<"a">>, JStr(<<"t", "e", "x", "t">>))>>,
      <<KeyValue(<<"a">>, JList(<<JStr(<<"x">>)>>))>>,
      <<KeyValue(<<"a", ".", "b">>, JStr(<<"f", "l", "a", "t">>)), KeyValue(<<"z">>, JStr(<<"k">>))>> }

AssignFields ==
    { <<"a", ".", "b">>, <<"a", ".", "b", ".", "c">>, <<"x", ".", "y">>, <<"a", ".", ".", "b">>,
      <<"a", ".">>, <<"a">>, <<>>, <<"a", ".", "b", "_", "_", "c">> }

AssignValues == { JStr(<<"v">>), JMap(<<KeyValue(<<"k">>, JStr(<<"v">>))>>), JStr(<<>>), JNull }

AsgInit ==
    /\ asgData \in AssignTargets
    /\ asgField \in AssignFields
    /\ asgValue \in AssignValues
    /\ asgPc = "called"

AssignField ==
    /\ asgPc = "called"
    /\ asgData' = _assign_field(asgData, asgField, asgValue)
    /\ asgPc' = "assigned"
    /\ UNCHANGED <<asgField, asgValue, notAsg>>

AsgNext == AssignField

AsgIdle == asgData = <<>> /\ asgField = <<>> /\ asgValue = JNull /\ asgPc = "idle"

(***************************************************************************)
(* The categorical values of parse_customer_text: the three places where   *)
(* extract_choice resolves a value of the briefing against the keys of a   *)
(* configured mapping, with the default each place falls back to.          *)
(***************************************************************************)
\* the values a categorical line may hold
ChoiceValues ==
    {<<>>,
     <<"u8CB7">>,
     <<"u79DF">>,
     <<"u8CB7", "u65B7">>,
     <<"u79DF", "u7528">>,
     <<" ", "u8CB7", " ">>,
     <<"u8CB7", " ", "u65B7">>,
     <<"(", "u8CB7", ")">>,
     <<"u73FE", "u91D1", "uFF08", "u672C", "u6B21", "u79DF", "uFF09">>,
     <<"u81EA", "u7528">>,
     <<"b", "u", "y">>,
     <<"u5BB6", "u7528", "u5BA2", "u6236">>,
     <<"u5546", "u7528", "u5BA2", "u6236">>,
     <<"u653F", "u5E9C", "u5C08", "u6848">>,
     <<"u5BB6", "u7528">>,
     <<"u653F", "u5E9C">>,
     <<"u5B78", "u6821">>,
     <<"u5BB6", "u7528", "u5BA2", "u6236", "(", "u5546", "u7528", "u5BA2", "u6236", ")">>,
     <<"u5546", "u7528", " ", "u5BA2", "u6236">>,
     <<"0", "1">>,
     <<"0", "2">>,
     <<"0", "7">>,
     <<"0", "9">>,
     <<"u6708", "u8CBB">>,
     <<"u6708", "u4ED8">>,
     <<"u6BCF", "u6708">>,
     <<"u6BCF", "u6708", "u6536", "u8CBB">>,
     <<"u8A66", "u7528">>,
     <<"u8A66", "u7528", "u671F">>,
     <<"u4FE1", "u7528", "u5361">>,
     <<"u4FE1", "u7528", "u5361", "u5206", "u671F">>,
     <<"u4E00", "u6B21", "u6027", "u5168", "u7E73">>,
     <<"u5168", "u7E73">>,
     <<"u8F49", "u8CEC">>,
     <<"u5B63", "u4ED8">>,
     <<"(", "u6708", "u8CBB", ")">>,
     <<"u73FE", "u91D1", "(", "u8A66", "u8A66", "u5B63", "u4ED8", ")">>,
     <<"0", " ", "3">>,
     <<"u4E82", "u5BEB">>,
     <<"u9280", "u884C", "u81EA", "u52D5", "u8F49", "u8CEC">>}

\* the configured mapping whose keys a call site passes as candidates
CandidatesAt(site) ==
    IF site = "customerCategory" THEN KeysOf(customerClasses)
    ELSE IF site = "paymentMethod" THEN KeysOf(paymentMethods)
    ELSE KeysOf(usageModes)

ChoiceInit ==
    /\ chValue \in ChoiceValues
    /\ chSite = ""
    /\ chChoice = <<>>
    /\ chLabel = <<>>
    /\ chPc = "value"

\* the state after a call site: what extract_choice returned and the label
\* the site goes on with
Resolved(site, choice, label) ==
    /\ chSite' = site
    /\ chChoice' = choice
    /\ chLabel' = label
    /\ chPc' = "resolved"
    /\ UNCHANGED <<chValue, notChoice>>

\* parse_customer_text, lines 640-646: category_label
ResolveCategory ==
    /\ chPc = "value"
    /\ Resolved("customerCategory",
                extract_choice(chValue, KeysOf(customerClasses)),
                TextOr(extract_choice(chValue, KeysOf(customerClasses)),
                       <<"u5546", "u7528", "u5BA2", "u6236">>))

\* parse_customer_text, lines 654-690: payment_label; extract_choice is not
\* called when the two-digit code has given the label
ResolvePayment ==
    /\ chPc = "value"
    /\ Resolved("paymentMethod",
                IF LabelOfCode(Strip(chValue)) # <<>> THEN <<>>
                ELSE extract_choice(chValue, KeysOf(paymentMethods)),
                PaymentLabel(chValue))

\* parse_customer_text, lines 697-703: usage_label
ResolveUsage ==
    /\ chPc = "value"
    /\ Resolved("usageMode",
                extract_choice(chValue, KeysOf(usageModes)),
                TextOr(extract_choice(chValue, KeysOf(usageModes)), <<"u79DF">>))

ChoiceNext == ResolveCategory \/ ResolvePayment \/ ResolveUsage

ChoiceIdle ==
    /\ chValue = <<>> /\ chSite = "" /\ chChoice = <<>> /\ chLabel = <<>> /\ chPc = "idle"

(***************************************************************************)
(* The two line parsers: parse_lines of customer_builder.py and            *)
(* _parse_lines of opportunity_builder.py, one loop iteration a step.  The *)
(* text is the sequence of its lines, text.splitlines(); parsed holds the  *)
(* value of every key and keys the keys it has an entry for.               *)
(***************************************************************************)
\* LABEL_MAP of opportunity_builder.py, lines 14-115
OPPORTUNITY_LABEL_MAP ==
    <<[label |-> <<"u5546", "u6A5F", "u540D", "u7A31">>, key |-> "opportunityName"],
      [label |-> <<"u5546", "u673A", "u540D", "u79F0">>, key |-> "opportunityName"],
      [label |-> <<"u5BA2", "u6236", "u540D", "u7A31">>, key |-> "customerName"],
      [label |-> <<"u5BA2", "u6237", "u540D", "u79F0">>, key |-> "customerName"],
      [label |-> <<"u5BA2", "u6236">>, key |-> "customerLine"],
      [label |-> <<"u5BA2", "u6237">>, key |-> "customerLine"],
      [label |-> <<"u806F", "u7D61", "u5730", "u5740">>, key |-> "address"],
      [label |-> <<"u8054", "u7CFB", "u5730", "u5740">>, key |-> "address"],
      [label |-> <<"u806F", "u7E6B", "u96FB", "u8A71">>, key |-> "contactPhone"],
      [label |-> <<"u8054", "u7CFB", "u7535", "u8BDD">>, key |-> "contactPhone"],
      [label |-> <<"u5B89", "u88DD", "u4F4D", "u7F6E">>, key |-> "installLocation"],
      [label |-> <<"u5B89", "u88C5", "u4F4D", "u7F6E">>, key |-> "installLocation"],
      [label |-> <<"u5B89", "u88DD", "u4F4D", "u7F6E", "uFF08", "u5BA2", "u6236", "u5730", "u5740", "uFF09">>, key |-> "installLocation"],
      [label |-> <<"u5B89", "u88C5", "u4F4D", "u7F6E", "uFF08", "u5BA2", "u6237", "u5730", "u5740", "uFF09">>, key |-> "installLocation"],
      [label |-> <<"u5B89", "u88DD", "u4F4D", "u7F6E", "uFF08", "u5BA2", "u6236", "u5730", "u5740", " ", "uFF09">>, key |-> "installLocation"],
      [label |-> <<"u5B89", "u88C5", "u4F4D", "u7F6E", "uFF08", "u5BA2", "u6237", "u5730", "u5740", " ", "uFF09">>, key |-> "installLocation"],
      [label |-> <<"u5546", "u6A5F", "u968E", "u6BB5">>, key |-> "opportunityStage"],
      [label |-> <<"u5546", "u673A", "u9636", "u6BB5">>, key |-> "opportunityStage"],
      [label |-> <<"u4EA4", "u6613", "u985E", "u578B">>, key |-> "transactionType"],
      [label |-> <<"u4EA4", "u6613", "u7C7B", "u578B">>, key |-> "transactionType"],
      [label |-> <<"u5BA2", "u6236", "u5206", "u985E">>, key |-> "customerCategory"],
      [label |-> <<"u5BA2", "u6237", "u5206", "u7C7B">>, key |-> "customerCategory"],
      [label |-> <<"u5BA2", "u6236", "u5206", "u985E", "uFF08", "u5BB6", "u7528", "u5BA2", "u6236", " ", "u5546", "u696D", "u5BA2", "u6236", " ", "u653F", "u5E9C", "u5C08", "u6848", "uFF09">>, key |-> "customerCategory"],
      [label |-> <<"u5BA2", "u6237", "u5206", "u7C7B", "uFF08", "u5BB6", "u7528", "u5BA2", "u6237", " ", "u5546", "u4E1A", "u5BA2", "u6237", " ", "u653F", "u5E9C", "u4E13", "u6848", "uFF09">>, key |-> "customerCategory"],
      [label |-> <<"u5546", "u6A5F", "u65E5", "u671F">>, key |-> "opportunityDate"],
      [label |-> <<"u5546", "u673A", "u65E5", "u671F">>, key |-> "opportunityDate"],
      [label |-> <<"u8CA0", "u8CAC", "u4EBA">>, key |-> "ownerHint"],
      [label |-> <<"u8D1F", "u8D23", "u4EBA">>, key |-> "ownerHint"],
      [label |-> <<"u92B7", "u552E">>, key |-> "ownerHint"],
      [label |-> <<"u9500", "u552E">>, key |-> "ownerHint"],
      [label |-> <<"u9884", "u8BA1", "u7B7E", "u5355", "u65E5", "u671F">>, key |-> "expectSignDate"],
      [label |-> <<"u9810", "u8A08", "u7C3D", "u55AE", "u65E5", "u671F">>, key |-> "expectSignDate"],
      [label |-> <<"u9884", "u8BA1", "u7B7E", "u5355", "u91D1", "u989D">>, key |-> "expectSignMoney"],
      [label |-> <<"u9810", "u8A08", "u7C3D", "u55AE", "u91D1", "u984D">>, key |-> "expectSignMoney"],
      [label |-> <<"u9884", "u8BA1", "u7B7E", "u5355", "u6570", "u91CF">>, key |-> "expectSignNum"],
      [label |-> <<"u9810", "u8A08", "u7C3D", "u55AE", "u6578", "u91CF">>, key |-> "expectSignNum"],
      [label |-> <<"u9810", "u8A08", "u7C3D", "u55AE", "u6578">>, key |-> "expectSignNum"],
      [label |-> <<"u5E01", "u79CD">>, key |-> "currency"],
      [label |-> <<"u5E63", "u7A2E">>, key |-> "currency"],
      [label |-> <<"u5E63", "u5225">>, key |-> "currency"],
      [label |-> <<"u76EE", "u524D", "u4ED8", "u6B3E", "u65B9", "u5F0F">>, key |-> "paymentMethod"],
      [label |-> <<"u76EE", "u524D", "u4ED8", "u8CBB", "u65B9", "u5F0F">>, key |-> "paymentMethod"],
      [label |-> <<"u76EE", "u524D", "u4ED8", "u6B3E", "u65B9", "u5F0F", "uFF08", "0", "1", "-", "0", "7", "uFF09">>, key |-> "paymentMethod"],
      [label |-> <<"u4ED8", "u6B3E", "u65B9", "u5F0F">>, key |-> "paymentMethod"],
      [label |-> <<"u5408", "u7D04", "1", "u958B", "u59CB", "u65E5">>, key |-> "contractStartDate"],
      [label |-> <<"u5408", "u7EA6", "1", "u5F00", "u59CB", "u65E5">>, key |-> "contractStartDate"],
      [label |-> <<"u5408", "u7D04", "u958B", "u59CB", "u65E5">>, key |-> "contractStartDate"],
      [label |-> <<"u5408", "u7EA6", "u5F00", "u59CB", "u65E5">>, key |-> "contractStartDate"],
      [label |-> <<"u5408", "u540C", "u958B", "u59CB", "u65E5">>, key |-> "contractStartDate"],
      [label |-> <<"u5408", "u540C", "u5F00", "u59CB", "u65E5">>, key |-> "contractStartDate"],
      [label |-> <<"u5408", "u7D04", "1", "u7D50", "u675F", "u65E5", "u671F">>, key |-> "contractEndDate"],
      [label |-> <<"u5408", "u7EA6", "1", "u7ED3", "u675F", "u65E5", "u671F">>, key |-> "contractEndDate"],
      [label |-> <<"u5408", "u7D04", "u7D50", "u675F", "u65E5">>, key |-> "contractEndDate"],
      [label |-> <<"u5408", "u7EA6", "u7ED3", "u675F", "u65E5">>, key |-> "contractEndDate"],
      [label |-> <<"u5408", "u540C", "u7D50", "u675F", "u65E5">>, key |-> "contractEndDate"],
      [label |-> <<"u5408", "u540C", "u7ED3", "u675F", "u65E5">>, key |-> "contractEndDate"],
      [label |-> <<"u5408", "u7D04", "1", "u5E74", "u671F">>, key |-> "contractYears"],
      [label |-> <<"u5408", "u7EA6", "1", "u5E74", "u671F">>, key |-> "contractYears"],
      [label |-> <<"u5408", "u7D04", "u5E74", "u671F">>, key |-> "contractYears"],
      [label |-> <<"u5408", "u7EA6", "u5E74", "u671F">>, key |-> "contractYears"],
      [label |-> <<"u4F7F", "u7528", "u65B9", "u5F0F">>, key |-> "usageMode"],
      [label |-> <<"u65B9", "u6848", "u985E", "u578B">>, key |-> "planType"],
      [label |-> <<"u65B9", "u6848", "u7C7B", "u578B">>, key |-> "planType"],
      [label |-> <<"u65B9", "u6848", "u540D", "u7A31">>, key |-> "planType"],
      [label |-> <<"u65B9", "u6848", "u540D", "u79F0">>, key |-> "planType"],
      [label |-> <<"u65B9", "u6848", "u7C7B", "u578B", "uFF08", "u65B9", "u6848", "u985E", "u578B", "uFF09">>, key |-> "planType"],
      [label |-> <<"u65B9", "u6848", "u7C7B", "u578B", "uFF08", "u65B9", "u6848", "u7C7B", "u578B", "uFF09">>, key |-> "planType"],
      [label |-> <<"u6708", "u8CBB", "u91D1", "u984D">>, key |-> "monthlyFee"],
      [label |-> <<"u6708", "u8D39", "u91D1", "u989D">>, key |-> "monthlyFee"],
      [label |-> <<"u6309", "u91D1">>, key |-> "deposit"],
      [label |-> <<"u62BC", "u91D1">>, key |-> "deposit"],
      [label |-> <<"u9810", "u7E73", "u91D1">>, key |-> "prepay"],
      [label |-> <<"u9884", "u7F34", "u91D1">>, key |-> "prepay"],
      [label |-> <<"u7E3D", "u91D1", "u984D">>, key |-> "totalAmount"],
      [label |-> <<"u603B", "u91D1", "u989D">>, key |-> "totalAmount"],
      [label |-> <<"u5408", "u7D04", "u865F">>, key |-> "contractNumber"],
      [label |-> <<"u5408", "u7EA6", "u53F7">>, key |-> "contractNumber"],
      [label |-> <<"u5408", "u540C", "u865F">>, key |-> "contractNumber"],
      [label |-> <<"u5408", "u540C", "u53F7">>, key |-> "contractNumber"],
      [label |-> <<"u5E38", "u7528", "u806F", "u7D61", "u65B9", "u5F0F">>, key |-> "contactMethod"],
      [label |-> <<"u5E38", "u7528", "u8054", "u7CFB", "u65B9", "u5F0F">>, key |-> "contactMethod"],
      [label |-> <<"u5099", "u6CE8">>, key |-> "remark"],
      [label |-> <<"u5907", "u6CE8">>, key |-> "remark"],
      [label |-> <<"u8D0F", "u55AE", "u7387">>, key |-> "winningRate"],
      [label |-> <<"u8D62", "u5355", "u7387">>, key |-> "winningRate"],
      [label |-> <<"u5B89", "u88DD", "u6642", "u9593">>, key |-> "installTime"],
      [label |-> <<"u5B89", "u88C5", "u65F6", "u95F4">>, key |-> "installTime"],
      [label |-> <<"u5546", "u6A5F", "u4F86", "u6E90">>, key |-> "opportunitySource"],
      [label |-> <<"u5546", "u673A", "u6765", "u6E90">>, key |-> "opportunitySource"],
      [label |-> <<"u54C1", "u724C">>, key |-> "brandName"],
      [label |-> <<"u54C1", "u724C", "u540D", "u7A31">>, key |-> "brandName"],
      [label |-> <<"u54C1", "u724C", "u540D", "u79F0">>, key |-> "brandName"],
      [label |-> <<"u7522", "u54C1", "u540D", "u7A31">>, key |-> "productName"],
      [label |-> <<"u4EA7", "u54C1", "u540D", "u79F0">>, key |-> "productName"],
      [label |-> <<"u7522", "u54C1", "u5206", "u985E">>, key |-> "productClassName"],
      [label |-> <<"u4EA7", "u54C1", "u5206", "u7C7B">>, key |-> "productClassName"],
      [label |-> <<"u7522", "u54C1", "u7DDA">>, key |-> "productLineName"],
      [label |-> <<"u4EA7", "u54C1", "u7EBF">>, key |-> "productLineName"],
      [label |-> <<"u65B9", "u6848", "u7DE8", "u865F">>, key |-> "planCode"],
      [label |-> <<"u65B9", "u6848", "u7F16", "u53F7">>, key |-> "planCode"]>>

_PLACEHOLDER_TOKENS ==
    {<<"-", "-">>,
     <<"u2014">>,
     <<"-">>,
     <<"u66AB", "u7121">>,
     <<"u6682", "u65E0">>,
     <<"u7121">>,
     <<"u65E0">>,
     <<"n", "/", "a">>,
     <<"n", "\\", "a">>,
     <<"n", "a">>,
     <<"N", "/", "A">>,
     <<"N", "\\", "A">>,
     <<"N", "A">>}

\* the lines of a text
LinePool ==
    {<<"u5099", "u8A3B", ":", " ", "a">>,
     <<"u5099", "u6CE8", ":", " ", "-", "-">>,
     <<"b">>,
     <<"c", ":", " ", "d">>,
     <<" ", " ">>,
     <<"u806F", "u7D61", "u5730", "u5740", ":", " ", "u66AB", "u7121">>,
     <<"u6309", "u91D1", ":", " ", "N", "/", "A">>,
     <<"u6309", "u91D1">>,
     <<"u7121">>}

\* the values of a labelled line
LineValues ==
    {<<"v", "1">>,
     <<"1", "0", ":", "3", "0">>}

MaxLines == 3

\* the separators a labelled line is written with
LabelSeparators == {<<":", " ">>, <<"uFF1A">>}

\* the texts: up to MaxLines lines of the pool, and every label of the
\* opportunity table before a value on a line of its own
LineTexts ==
    UNION {[1..n -> LinePool] : n \in 0..MaxLines} \cup
    {<<OPPORTUNITY_LABEL_MAP[i].label \o sep \o v>> :
        i \in 1..Len(OPPORTUNITY_LABEL_MAP), sep \in LabelSeparators, v \in LineValues}

OpportunityKeys == {OPPORTUNITY_LABEL_MAP[i].key : i \in 1..Len(OPPORTUNITY_LABEL_MAP)}

\* LABEL_MAP.get(label) of opportunity_builder.py: "" for none
OpportunityKey(label) ==
    IF \E i \in 1..Len(OPPORTUNITY_LABEL_MAP) : OPPORTUNITY_LABEL_MAP[i].label = label
    THEN OPPORTUNITY_LABEL_MAP[CHOOSE i \in 1..Len(OPPORTUNITY_LABEL_MAP) :
                                   OPPORTUNITY_LABEL_MAP[i].label = label].key
    ELSE ""

_normalize_placeholder(value) ==
    IF Lower(Strip(value)) \in _PLACEHOLDER_TOKENS THEN <<>> ELSE Strip(value)

\* the three replace calls of _normalize_label
HalfWidth(c) ==
    IF c = "uFF08" THEN "(" ELSE IF c = "uFF09" THEN ")" ELSE IF c = "uFF1A" THEN ":" ELSE c

_normalize_label(label) ==
    IF Strip([i \in 1..Len(label) |-> HalfWidth(label[i])]) = <<>> THEN label
    ELSE Strip([i \in 1..Len(label) |-> HalfWidth(label[i])])

\* re.split(r"[:：]", line, maxsplit=1): where line is cut, 0 without a colon
ColonAt(line) ==
    IF \E i \in 1..Len(line) : line[i] \in {":", "uFF1A"}
    THEN SetMin({i \in 1..Len(line) : line[i] \in {":", "uFF1A"}})
    ELSE 0

\* _parse_lines, lines 184-189: line is a label and the line below is its value
ValueBelow(lines, i) ==
    /\ OpportunityKey(Strip(lines[i])) # ""
    /\ i + 1 <= Len(lines)
    /\ Strip(lines[i + 1]) # <<>>
    /\ OpportunityKey(Strip(lines[i + 1])) = ""

\* _parse_lines, lines 195-200: the key of a line with a colon, "" for none
ColonKey(line) ==
    IF ColonAt(line) = 0 THEN ""
    ELSE OpportunityKey(_normalize_label(SubSeq(line, 1, ColonAt(line) - 1)))

ColonValue(line) ==
    _normalize_placeholder(Strip(SubSeq(line, ColonAt(line) + 1, Len(line))))

LinesInit ==
    /\ lnParser \in {"parse_lines", "_parse_lines"}
    /\ lnLines \in LineTexts
    /\ lnI = 1
    /\ lnParsed = [k \in FieldKeys \cup OpportunityKeys |-> <<>>]
    /\ lnKeys = {}
    /\ lnLastKey = ""
    /\ lnPc = "loop"

\* parse_lines of customer_builder.py: one iteration of the loop
CustomerLine ==
    /\ lnParser = "parse_lines" /\ lnPc = "loop" /\ lnI <= Len(lnLines)
    /\ lnParsed' = NextParsed(lnParsed, lnLastKey, Strip(lnLines[lnI]))
    /\ lnLastKey' = NextLastKey(lnLastKey, Strip(lnLines[lnI]))
    /\ lnKeys' = IF Strip(lnLines[lnI]) # <<>> /\ SeparatorOf(Strip(lnLines[lnI])) # ""
                     /\ LineKey(Strip(lnLines[lnI])) # ""
                  THEN lnKeys \cup {LineKey(Strip(lnLines[lnI]))}
                  ELSE lnKeys
    /\ lnI' = lnI + 1
    /\ UNCHANGED <<lnParser, lnLines, lnPc, notLines>>

\* _parse_lines of opportunity_builder.py: one iteration of the while loop
OpportunityLine ==
    /\ lnParser = "_parse_lines" /\ lnPc = "loop" /\ lnI <= Len(lnLines)
    /\ IF Strip(lnLines[lnI]) = <<>>
       THEN lnI' = lnI + 1 /\ UNCHANGED <<lnParsed, lnKeys>>
       ELSE IF ValueBelow(lnLines, lnI)
       THEN /\ lnParsed' = [lnParsed EXCEPT ![OpportunityKey(Strip(lnLines[lnI]))] =
                                _normalize_placeholder(Strip(lnLines[lnI + 1]))]
            /\ lnKeys' = lnKeys \cup {OpportunityKey(Strip(lnLines[lnI]))}
            /\ lnI' = lnI + 2
       ELSE IF ColonKey(Strip(lnLines[lnI])) # ""
       THEN /\ lnParsed' = [lnParsed EXCEPT ![ColonKey(Strip(lnLines[lnI]))] =
                                ColonValue(Strip(lnLines[lnI]))]
            /\ lnKeys' = lnKeys \cup {ColonKey(Strip(lnLines[lnI]))}
            /\ lnI' = lnI + 1
       ELSE lnI' = lnI + 1 /\ UNCHANGED <<lnParsed, lnKeys>>
    /\ UNCHANGED <<lnParser, lnLines, lnLastKey, lnPc, notLines>>

\* return parsed, of either parser
ReturnParsed ==
    /\ lnPc = "loop" /\ lnI > Len(lnLines)
    /\ lnPc' = "returned"
    /\ UNCHANGED <<lnParser, lnLines, lnI, lnParsed, lnKeys, lnLastKey, notLines>>

LinesNext == CustomerLine \/ OpportunityLine \/ ReturnParsed

LinesIdle ==
    /\ lnParser = "" /\ lnLines = <<>> /\ lnI = 0 /\ lnParsed = <<>> /\ lnKeys = {}
    /\ lnLastKey = "" /\ lnPc = "idle"

(***************************************************************************)
(* The expected signing amount: _build_context of opportunity_builder.py,  *)
(* then _create_opportunity_for_customer and the create payload of         *)
(* services/customer_submission.py.  An amount is None or a number; the    *)
(* numbers are whole, as the texts of the pool give them.                  *)
(***************************************************************************)
NoAmount == [has |-> FALSE]

Amount(n) == [has |-> TRUE, n |-> n]

\* the truth value Python gives an amount: neither None nor zero
Truthy(amount) == amount.has /\ amount.n # 0

\* a if a is not None else b
IfNone(a, b) == IF a.has THEN a ELSE b

\* a or b
OrElse(a, b) == IF Truthy(a) THEN a ELSE b

\* the expected signing amount when the total amount is left out of it
ExpectFromFeeOnly(expect, total_amount, monthly_fee, contract_years) ==
    IF Truthy(expect) THEN expect
    ELSE IF Truthy(monthly_fee) /\ contract_years # 0
    THEN Amount(monthly_fee.n * contract_years * 12)
    ELSE NoAmount

\* _build_context, lines 470-472 and 503-504: expect_sign_money
ContextExpectSignMoney(expect, total_amount, monthly_fee, contract_years) ==
    IF OrElse(expect, total_amount).has THEN OrElse(expect, total_amount)
    ELSE IF Truthy(monthly_fee) /\ contract_years # 0
    THEN Amount(monthly_fee.n * contract_years * 12)
    ELSE NoAmount

\* _build_context: the amounts of the context; contract_years 0 is None
ContextAmounts(fields, customer) ==
    [monthlyFee |-> IfNone(fields.monthlyFee, customer.monthlyFee),
     totalAmount |-> IfNone(fields.totalAmount, customer.totalAmount),
     contractYears |-> fields.contractYears,
     expectSignMoney |->
         ContextExpectSignMoney(fields.expectSignMoney,
                                IfNone(fields.totalAmount, customer.totalAmount),
                                IfNone(fields.monthlyFee, customer.monthlyFee),
                                fields.contractYears)]

\* _create_opportunity_for_customer, lines 2604-2607: years_value
CreatedContractYears(context, planExt) ==
    IF context.contractYears # 0 THEN context.contractYears
    ELSE _determine_contract_years(planExt)

\* _create_opportunity_for_customer, lines 2602-2615
CreatedAmounts(context, planExt) ==
    IF Truthy(context.expectSignMoney) THEN context
    ELSE [context EXCEPT
              !.contractYears = CreatedContractYears(context, planExt),
              !.expectSignMoney =
                  IF Truthy(context.monthlyFee) /\ CreatedContractYears(context, planExt) # 0
                  THEN Amount(context.monthlyFee.n * CreatedContractYears(context, planExt) * 12)
                  ELSE context.expectSignMoney]

\* _format_amount of a whole number: str(int(number)), "" for None
_format_amount(value) == IF value.has THEN NatStr(value.n) ELSE <<>>

\* what the text gives: _parse_number of the amount fields and
\* _parse_contract_years
TextAmounts ==
    [expectSignMoney : {NoAmount, Amount(0), Amount(3000)},
     totalAmount : {NoAmount, Amount(0), Amount(500)},
     monthlyFee : {NoAmount, Amount(0), Amount(100)},
     contractYears : {0, 2, 3}]

\* what the customer record gives
CustomerAmounts ==
    [totalAmount : {NoAmount, Amount(700)}, monthlyFee : {NoAmount, Amount(150)}]

NoContext ==
    [monthlyFee |-> NoAmount, totalAmount |-> NoAmount, contractYears |-> 0,
     expectSignMoney |-> NoAmount]

MonInit ==
    /\ monFields \in TextAmounts
    /\ monCustomer \in CustomerAmounts
    /\ monPlanExt \in BOOLEAN
    /\ monCtx = NoContext
    /\ monPayload = <<>>
    /\ monPc = "text"

\* opportunity_builder._build_context, its amounts
BuildContextAmounts ==
    /\ monPc = "text"
    /\ monCtx' = ContextAmounts(monFields, monCustomer)
    /\ monPc' = "context"
    /\ UNCHANGED <<monFields, monCustomer, monPlanExt, monPayload, notMon>>

\* _create_opportunity_for_customer, its amounts
CreateOpportunityAmounts ==
    /\ monPc = "context"
    /\ monCtx' = CreatedAmounts(monCtx, monPlanExt)
    /\ monPc' = "created"
    /\ UNCHANGED <<monFields, monCustomer, monPlanExt, monPayload, notMon>>

\* _build_opportunity_create_payload: data["expectSignMoney"]
BuildPayloadAmount ==
    /\ monPc = "created"
    /\ monPayload' = _format_amount(monCtx.expectSignMoney)
    /\ monPc' = "payload"
    /\ UNCHANGED <<monFields, monCustomer, monPlanExt, monCtx, notMon>>

MonNext == BuildContextAmounts \/ CreateOpportunityAmounts \/ BuildPayloadAmount

MonIdle ==
    /\ monFields = NoContext /\ monCustomer = NoContext /\ monPlanExt = FALSE
    /\ monCtx = NoContext /\ monPayload = <<>> /\ monPc = "idle"

(***************************************************************************)
(* The stage of an opportunity: _resolve_stage_value, and the process of   *)
(* the create payload.  None and "" are both <<>>; the stage cache is      *)
(* _STAGE_CACHE as _ensure_stage_cache leaves it.  The configured stages   *)
(* are ids or unset, which is how _infer_stage_type reads them.            *)
(***************************************************************************)
DEFAULT_STAGE_RENT_ID ==
    <<"1", "5", "8", "7", "8", "5", "9", "8", "7", "2", "0", "3", "5", "1", "1", "0", "9", "1", "9">>

DEFAULT_STAGE_RENT_PROCESS_ID ==
    <<"1", "6", "0", "7", "9", "0", "7", "0", "3", "5", "6", "1", "5", "0", "6", "8", "1", "7", "5">>

DEFAULT_STAGE_RENT_PROCESS_STAGE_ID ==
    <<"1", "6", "0", "7", "9", "0", "7", "0", "3", "5", "6", "1", "5", "0", "6", "8", "2", "2", "3">>

DEFAULT_STAGE_BUY_ID ==
    <<"1", "4", "7", "6", "7", "9", "1", "4", "4", "2", "1", "1", "0", "6", "7", "9", "3", "0", "0">>

DEFAULT_STAGE_BUY_PROCESS_ID ==
    <<"1", "6", "0", "7", "9", "0", "7", "0", "3", "5", "6", "1", "5", "0", "6", "8", "1", "7", "5">>

DEFAULT_STAGE_BUY_PROCESS_STAGE_ID ==
    <<"1", "6", "0", "7", "9", "0", "7", "0", "3", "5", "6", "1", "5", "0", "6", "8", "2", "1", "1">>

\* the usage labels of a context
UsageLabels ==
    {<<>>,
     <<"u79DF">>,
     <<"u8CB7">>,
     <<"R", "e", "n", "t">>,
     <<"B", "U", "Y">>,
     <<"u8CB7", "u65B7", "u6216", "u79DF">>,
     <<"u8D2D">>,
     <<"u8CFC">>,
     <<"u81EA", "u7528">>}

\* the stage hints of a context: None, ids, a label of the cache, a label
\* the cache does not hold
StageHints ==
    {<<>>,
     <<"1", "5", "8", "7", "8", "5", "9", "8", "7", "2", "0", "3", "5", "1", "1", "0", "9", "1", "9">>,
     <<"1", "4", "7", "6", "7", "9", "1", "4", "4", "2", "1", "1", "0", "6", "7", "9", "3", "0", "0">>,
     <<"4", "2">>,
     <<" ", "u904B", "u7DAD", "u671F", " ">>,
     <<"u7D50", "u6848">>}

\* the stage settings: each unset or an id
StageSettings ==
    [opportunity_stage_rent : {<<>>, <<"1", "1", "1">>},
     opportunity_stage_buy : {<<>>, <<"2", "2", "2">>},
     opportunity_stage_default : {<<>>, <<"3", "3", "3">>}]

\* _STAGE_CACHE after _ensure_stage_cache: empty when the lookup gave nothing
StageCaches ==
    {<<>>, <<[k |-> <<"u904B", "u7DAD", "u671F">>, v |-> DEFAULT_STAGE_RENT_ID]>>}

\* context.get("opptStage") or context.get("opptStageId")
ContextStages == {<<>>, <<"7", "7">>}

\* a or b, for texts
Or(a, b) == IF a # <<>> THEN a ELSE b

_normalize_stage_candidate(value) == Strip(value)

\* _find_stage_id_by_label: <<>> for None
_find_stage_id_by_label(label, cache) ==
    IF Lower(Strip(label)) = <<>> THEN <<>>
    ELSE IF \E i \in 1..Len(cache) :
                Contains(cache[i].k, Lower(Strip(label))) \/ Contains(Lower(Strip(label)), cache[i].k)
    THEN cache[SetMin({i \in 1..Len(cache) :
                Contains(cache[i].k, Lower(Strip(label))) \/ Contains(Lower(Strip(label)), cache[i].k)})].v
    ELSE <<>>

\* _infer_stage_type: "" for None
_infer_stage_type(stage_id, settings) ==
    IF Strip(stage_id) = <<>> THEN ""
    ELSE IF Strip(stage_id) \in {settings.opportunity_stage_rent, DEFAULT_STAGE_RENT_ID} THEN "rent"
    ELSE IF Strip(stage_id) \in {settings.opportunity_stage_buy, DEFAULT_STAGE_BUY_ID} THEN "buy"
    ELSE ""

RentTokens == {<<"u79DF">>, <<"r", "e", "n", "t">>, <<"u79DF", "u7528">>, <<"u79DF", "u8CC3">>}

BuyTokens == {<<"u8CB7">>, <<"u8D2D">>, <<"u8CFC">>, <<"b", "u", "y">>, <<"u8CB7", "u65B7">>, <<"u8CB7", "u5165">>}

HasToken(usage_lower, tokens) == \E token \in tokens : Contains(usage_lower, token)

\* the kind a usage label stands for in the wording of the settings: a rent
\* label the rent stage, a buy label the buy stage
StageTypeAsNamed(usage_lower) ==
    IF HasToken(usage_lower, RentTokens) THEN "rent"
    ELSE IF HasToken(usage_lower, BuyTokens) THEN "buy"
    ELSE ""

\* _resolve_stage_value, lines 751-758: stage_type, "" for None
StageTypeOf(usage_lower) ==
    IF HasToken(usage_lower, RentTokens) THEN "buy"
    ELSE IF HasToken(usage_lower, BuyTokens) THEN "rent"
    ELSE ""

\* _resolve_stage_value, lines 746-765: candidates
StageCandidates(stage_hint, stage_type, settings) ==
    <<stage_hint>> \o
    (IF stage_type = "buy" THEN <<Or(settings.opportunity_stage_buy, DEFAULT_STAGE_BUY_ID)>>
     ELSE IF stage_type = "rent" THEN <<Or(settings.opportunity_stage_rent, DEFAULT_STAGE_RENT_ID)>>
     ELSE <<>>) \o
    <<settings.opportunity_stage_default, settings.opportunity_stage_rent,
      settings.opportunity_stage_buy>>

\* _resolve_stage_value, lines 767-774: the stage a candidate gives, <<>>
\* when the loop goes on
StageOfCandidate(candidate, cache) ==
    IF _normalize_stage_candidate(candidate) = <<>> THEN <<>>
    ELSE IF IsDigits(_normalize_stage_candidate(candidate))
    THEN _normalize_stage_candidate(candidate)
    ELSE _find_stage_id_by_label(_normalize_stage_candidate(candidate), cache)

\* _extract_cached_stage_any
_extract_cached_stage_any(cache) == IF cache = <<>> THEN <<>> ELSE cache[1].v

\* _resolve_stage_value, lines 766-781: the stage found
StageFound(candidates, cache, stage_from_context) ==
    IF \E i \in 1..Len(candidates) : StageOfCandidate(candidates[i], cache) # <<>>
    THEN StageOfCandidate(candidates[SetMin({i \in 1..Len(candidates) :
                              StageOfCandidate(candidates[i], cache) # <<>>})], cache)
    ELSE Or(_extract_cached_stage_any(cache), stage_from_context)

\* (stage_value, stage_kind) for the stage found
StageAndKind(stage_value, stage_type, settings) ==
    IF stage_value = <<>> THEN [value |-> <<>>, kind |-> ""]
    ELSE [value |-> stage_value,
          kind |-> IF stage_type # "" THEN stage_type
                   ELSE _infer_stage_type(stage_value, settings)]

_resolve_stage_value(context, settings, cache) ==
    StageAndKind(StageFound(StageCandidates(context.stageHint,
                                            StageTypeOf(Lower(context.usageLabel)), settings),
                            cache, context.opptStage),
                 StageTypeOf(Lower(context.usageLabel)), settings)

\* _build_opportunity_create_payload, lines 1210 and 1374-1386: opptStage,
\* process and processStage of data after _cleanup, <<>> for a key left out
StagePayload(stage) ==
    [opptStage |-> stage.value,
     process |-> IF stage.value = <<>> THEN <<>>
                 ELSE IF stage.kind = "rent" THEN DEFAULT_STAGE_RENT_PROCESS_ID
                 ELSE IF stage.kind = "buy" THEN DEFAULT_STAGE_BUY_PROCESS_ID
                 ELSE <<>>,
     processStage |-> IF stage.value = <<>> THEN <<>>
                      ELSE IF stage.kind = "rent" THEN DEFAULT_STAGE_RENT_PROCESS_STAGE_ID
                      ELSE IF stage.kind = "buy" THEN DEFAULT_STAGE_BUY_PROCESS_STAGE_ID
                      ELSE <<>>]

NoStage == [value |-> <<>>, kind |-> ""]

NoStagePayload == [opptStage |-> <<>>, process |-> <<>>, processStage |-> <<>>]

StgInit ==
    /\ stgContext \in [usageLabel : UsageLabels, stageHint : StageHints, opptStage : ContextStages]
    /\ stgSettings \in StageSettings
    /\ stgCache \in StageCaches
    /\ stgStage = NoStage
    /\ stgData = NoStagePayload
    /\ stgPc = "context"

\* stage_value, stage_kind = _resolve_stage_value(context, settings, client)
ResolveStageValue ==
    /\ stgPc = "context"
    /\ stgStage' = _resolve_stage_value(stgContext, stgSettings, stgCache)
    /\ stgPc' = "resolved"
    /\ UNCHANGED <<stgContext, stgSettings, stgCache, stgData, notStg>>

\* the rest of _build_opportunity_create_payload
BuildStagePayload ==
    /\ stgPc = "resolved"
    /\ stgData' = StagePayload(stgStage)
    /\ stgPc' = "payload"
    /\ UNCHANGED <<stgContext, stgSettings, stgCache, stgStage, notStg>>

StgNext == ResolveStageValue \/ BuildStagePayload

StgIdle ==
    /\ stgContext = NoStage /\ stgSettings = NoStage /\ stgCache = <<>>
    /\ stgStage = NoStage /\ stgData = NoStagePayload /\ stgPc = "idle"

(***************************************************************************)
(* _lookup_products with the entries it returns kept whole: an entry is    *)
(* the dict of the catalog, children included, <<>> for a dict without     *)
(* children.  The product texts are every key of the catalog and names     *)
(* typed otherwise.                                                        *)
(***************************************************************************)
\* the dict stored at position i of the catalog
CatalogData(i) ==
    [code |-> catalog[i].code, name |-> catalog[i].name, cycle |-> catalog[i].cycle,
     children |-> catalog[i].children]

\* the position of a key of the catalog
KeyIndex(key) == CHOOSE i \in 1..Len(catalog) : catalog[i].key = key

\* the first step with the kit itself appended in front of its children
RECURSIVE ExactEntriesWithKit(_, _, _)
ExactEntriesWithKit(lookup, lo, hi) ==
    IF lo > hi THEN <<>>
    ELSE IF lo < hi
    THEN ExactEntriesWithKit(lookup, lo, (lo + hi) \div 2) \o
         ExactEntriesWithKit(lookup, (lo + hi) \div 2 + 1, hi)
    ELSE IF ~Contains(lookup, catalog[lo].key) THEN <<>>
    ELSE <<CatalogData(lo)>> \o
         [j \in 1..Len(catalog[lo].children) |-> CatalogData(KeyIndex(catalog[lo].children[j]))]

\* _lookup_products, first step over the entries lo..hi of the catalog in
\* their order, before "not in results"
RECURSIVE ExactEntries(_, _, _)
ExactEntries(lookup, lo, hi) ==
    IF lo > hi THEN <<>>
    ELSE IF lo < hi
    THEN ExactEntries(lookup, lo, (lo + hi) \div 2) \o
         ExactEntries(lookup, (lo + hi) \div 2 + 1, hi)
    ELSE IF ~Contains(lookup, catalog[lo].key) THEN <<>>
    ELSE IF catalog[lo].children # <<>>
    THEN [j \in 1..Len(catalog[lo].children) |-> CatalogData(KeyIndex(catalog[lo].children[j]))]
    ELSE <<CatalogData(lo)>>

\* _lookup_products, third step over the entries lo..hi
RECURSIVE NameEntries(_, _, _)
NameEntries(normalized_lookup, lo, hi) ==
    IF lo > hi THEN <<>>
    ELSE IF lo < hi
    THEN NameEntries(normalized_lookup, lo, (lo + hi) \div 2) \o
         NameEntries(normalized_lookup, (lo + hi) \div 2 + 1, hi)
    ELSE IF /\ catalog[lo].children = <<>>
            /\ normalized_lookup # <<>>
            /\ \/ Contains(NameNorm(catalog[lo]), normalized_lookup)
               \/ Contains(normalized_lookup, NameNorm(catalog[lo]))
    THEN <<CatalogData(lo)>>
    ELSE <<>>

\* _lookup_products after its first step: the step that answers and what
\* it returns
LaterEntries(exact, lookup) ==
    IF exact # <<>> THEN [step |-> "key", results |-> exact]
    ELSE IF Contains(lookup, <<"u9F8D", "u982D">>)
    THEN [step |-> "tap", results |-> <<CatalogData(KeyIndex(<<"u9F8D", "u982D">>))>>]
    ELSE [step |-> "name",
          results |-> AppendNew(<<>>, NameEntries(Without(Without(lookup, " "), "-"),
                                                  1, Len(catalog)))]

LookupEntries(plan_type) ==
    IF plan_type = <<>> THEN [step |-> "empty", results |-> <<>>]
    ELSE LaterEntries(AppendNew(<<>>, ExactEntries(Upper(plan_type), 1, Len(catalog))),
                      Upper(plan_type))

\* the product texts
ProductTexts ==
    {<<"R", "O", "9", "0", "0", "S">>,
     <<"R", "O", "6", "0", "0", "G">>,
     <<"R", "O", "6", "0", "0", "G", "u4E3B">>,
     <<"R", "O", "5", "0", "0", "G", "u819C">>,
     <<"R", "O", "5", "0", "0", "G", "u70AD">>,
     <<"R", "O", "5", "0", "0", "G", "P", "P">>,
     <<"O", "N", "Y", "X">>,
     <<"O", "N", "Y", "X", "u6FFE", "u82AF", "1">>,
     <<"O", "N", "Y", "X", "u6FFE", "u82AF", "2">>,
     <<"C", "H", "P", "1", "0", "1">>,
     <<"C", "H", "P", "1", "0", "1", "u6FFE", "u82AF", "1">>,
     <<"C", "H", "P", "1", "0", "1", "u6FFE", "u82AF", "2">>,
     <<"M", "F", "3", "3", "0">>,
     <<"M", "F", "1", "1", "0">>,
     <<"M", "F", "2", "2", "0">>,
     <<"D", "C", "3", "0", "0", "0">>,
     <<"H", "S", "9", "9", "0">>,
     <<"H", "M", "2", "9", "0">>,
     <<"E", "P", "2", "9", "8">>,
     <<"H", "M", "1", "9", "0">>,
     <<"E", "P", "3", "9", "8">>,
     <<"E", "P", "1", "6", "8", "P", "L", "U", "S">>,
     <<"M", "3">>,
     <<"u5341", "u79D2", "u6A5F">>,
     <<"U", "V", "C", "-", "9", "0", "2">>,
     <<"M", "A", "X", "T", "E", "C">>,
     <<"u58D3", "u529B", "u6876", "3", "G">>,
     <<"u58D3", "u529B", "u6876", "1", ".", "5", "G">>,
     <<"u9F8D", "u982D">>,
     <<"4", "G", "U", "V">>,
     <<"6", "G", "U", "V">>,
     <<"1", "G", "U", "V">>,
     <<"1", "2", "G", "U", "V">>,
     <<"2", "G", "U", "V">>,
     <<"P", "H", "I", "L", "I", "P", "S", " ", "2", "G", "/", "1", "6", "W", " ", "u6BBA", "u83CC", "u71C8">>,
     <<"P", "H", "I", "L", "L", "I", "P", "S", " ", "2", "G", "/", "1", "6", "W", " ", "u6BBA", "u83CC", "u71C8">>,
     <<"P", "H", "I", "L", "I", "P", "S", "2", "G", "1", "6", "W">>,
     <<"P", "H", "I", "L", "L", "I", "P", "S", "2", "G", "1", "6", "W">>,
     <<"2", "G", "/", "1", "6", "W", " ", "u6BBA", "u83CC", "u71C8">>,
     <<"2", "G", "U", "V", "1", "6", "W">>,
     <<"P", "H", "I", "L", "I", "P", "S", " ", "2", "G", " ", "U", "V", " ", "u6BBA", "u83CC", "u71C8">>,
     <<"P", "H", "I", "L", "L", "I", "P", "S", " ", "2", "G", " ", "U", "V", " ", "u6BBA", "u83CC", "u71C8">>,
     <<"U", "F">>,
     <<"P", "B", "S", "4", "0", "0">>,
     <<"H", "1", "0", "4">>,
     <<"E", "F", "6", "0", "0", "0">>,
     <<"F", "H", "3", "0", "1">>,
     <<"F", "H", "5", "0", "0">>,
     <<"F", "H", "2", "3", "0">>,
     <<"F", "H", "2", "0", "0">>,
     <<"D", "C", "2", "0", "0", "0">>,
     <<"D", "C", "1", "0", "0", "0">>,
     <<"A", "H", "P", "1", "5", "0">>,
     <<"1", "0", "u540B", "P", "P">>,
     <<"2", "0", "u540B", "P", "P">>,
     <<"T", "3", "3">>,
     <<"C", "L", "A", "R", "I", "S", "-", "X", "L">>,
     <<"P", "W", "C", "E", "1", "6", "F", "1", "0">>,
     <<"R", "O", "1", "5", "0", "G">>,
     <<"R", "O", "1", "0", "0", "G">>,
     <<"R", "O", "4", "0", "0", "G">>,
     <<"u96D9", "u982D", "M", "C">>,
     <<"u96D9", "u982D", "I", "2", "0", "0", "0">>,
     <<"R", "-", "0", "0", "1">>,
     <<"R", "-", "0", "0", "2">>,
     <<"M", "C", "2">>,
     <<>>,
     <<"r", "o", "9", "0", "0", "s">>,
     <<"R", "O", "-", "9", "0", "0", "S">>,
     <<"E", "V", "E", "R", "P", "O", "L", "L", "-", "R", "O", "-", "6", "0", "0", "G">>,
     <<"C", "H", "P", "-", "1", "0", "1">>,
     <<"U", "V", "C", "9", "0", "2">>,
     <<"X", "Y", "Z">>,
     <<"R", "-", "0", "0", "1", " ", "R", "O", "9", "0", "0", "S">>,
     <<"o", "n", "y", "x", " ", "m", "c", "2">>,
     <<"X", "u9F8D", "u982D">>,
     <<"u71B1", "u98F2">>}

ProdInit ==
    /\ prodText \in ProductTexts
    /\ prodFound = [step |-> "", results |-> <<>>]
    /\ prodItems = <<>>
    /\ prodPc = "text"

\* _lookup_products(plan_type)
LookupProducts ==
    /\ prodPc = "text"
    /\ prodFound' = LookupEntries(prodText)
    /\ prodPc' = "found"
    /\ UNCHANGED <<prodText, prodItems, notProd>>

\* _parse_install_items(text, plan_type) of the same text
ParseProductItems ==
    /\ prodPc = "found"
    /\ prodItems' = Deduped(ResolvedItems(prodText), {})
    /\ prodPc' = "parsed"
    /\ UNCHANGED <<prodText, prodFound, notProd>>

ProdNext == LookupProducts \/ ParseProductItems

ProdIdle ==
    /\ prodText = <<>> /\ prodFound = <<>> /\ prodItems = <<>> /\ prodPc = "idle"

(***************************************************************************)
(* C7: contract end = contract start + N years                             *)
(***************************************************************************)
GregorianLeap(y) == (y % 4 = 0 /\ y % 100 # 0) \/ y % 400 = 0

\* the same month and day N years on; 29 February becomes 28 February when
\* the target year is no leap year
YearsLater(d, n) ==
    IF d.m = 2 /\ d.d = 29 /\ ~GregorianLeap(d.y + n)
    THEN MkDate(d.y + n, 2, 28)
    ELSE MkDate(d.y + n, d.m, d.d)

IsoText(d) == Pad4(d.y) \o <<"-">> \o Pad2(d.m) \o <<"-">> \o Pad2(d.d)

\* the contract years in force when the payload is built: those of the text,
\* else the configured default for the plan
YearsInForce == IF conYears # 0 THEN conYears ELSE IF conPlanExt THEN 3 ELSE 2

\* C7: for every start date d and N >= 1 both _add_years return the same
\* month and day in year d.year + N, 29 February becoming 28 February when
\* the target year is no leap year; and whenever a start date and contract
\* years are known and no end date was given, the derived contract end date
\* is that date, in the context as in the create payload.
C7_AddYearsKeepsDayOrClamps ==
    /\ (conPc \in {"context", "payload"} /\ conStart.has /\ conYears >= 1)
           => /\ conAdd.cs = YearsLater(conStart, conYears)
              /\ conAdd.ob = YearsLater(conStart, conYears)
    /\ (conPc = "context" /\ conStart.has /\ conYears >= 1 /\ ~conEnd.has)
           => conCtx.contractEndDate = IsoText(YearsLater(conStart, conYears))
    /\ (conPc = "payload" /\ conStart.has /\ ~conEnd.has)
           => conCtx.contractEndDate = IsoText(YearsLater(conStart, YearsInForce))

\* 2024-02-29 plus one year is 2025-02-28, in the payload's context
C7_Witness ==
    /\ conPc = "payload"
    /\ conStart = MkDate(2024, 2, 29) /\ conYears = 1 /\ ~conEnd.has
    /\ conAdd.cs = MkDate(2025, 2, 28)
    /\ conCtx.contractEndDate = <<"2", "0", "2", "5", "-", "0", "2", "-", "2", "8">>

(***************************************************************************)
(* C8: next replacement date = install date + cycle months                 *)
(***************************************************************************)
GregorianDays(y, m) ==
    IF m = 2 THEN (IF GregorianLeap(y) THEN 29 ELSE 28)
    ELSE IF m \in {4, 6, 9, 11} THEN 30 ELSE 31

\* the date n months after d: the year carried over, the day clamped to the
\* length of the target month
MonthsLater(d, n) ==
    LET months == 12 * d.y + (d.m - 1) + n
        y      == months \div 12
        m      == (months % 12) + 1
    IN MkDate(y, m, IF d.d <= GregorianDays(y, m) THEN d.d ELSE GregorianDays(y, m))

\* C8: for every install date d and every cycle of m >= 1 months the next
\* replacement date of an item line is the date m months after d, the year
\* carried over and the day clamped to the length of the target month with
\* leap years honoured; the inline computation of _build_opportunity_items
\* and _add_months give the same date.
C8_NextReplacementDate ==
    /\ (itemPc \in {"built", "found"} /\ itemDate.has /\ itemCycle >= 1)
           => itemLine.define3 = IsoText(MonthsLater(itemDate, itemCycle))
    /\ (itemPc = "found" /\ itemDate.has /\ itemCycle >= 1)
           => /\ itemNext.found = MonthsLater(itemDate, itemCycle)
              /\ itemNext.viaCycle = MonthsLater(itemDate, itemCycle)
              /\ _date_to_string(itemNext.viaCycle) = itemLine.define3

\* 2024-01-31 plus one month is 2024-02-29, by both computations
C8_Witness ==
    /\ itemPc = "found"
    /\ itemDate = MkDate(2024, 1, 31) /\ itemCycle = 1
    /\ itemLine.define3 = <<"2", "0", "2", "4", "-", "0", "2", "-", "2", "9">>
    /\ itemNext.viaCycle = MkDate(2024, 2, 29)

(***************************************************************************)
(* C9: the lines of the install items are deduplicated                     *)
(***************************************************************************)
LineTuple(it) == <<it.code, it.name, it.cycle, it.qty>>

RO900STwice ==
    <<"R", "O", "9", "0", "0", "S", "*", "2", "+", "R", "O", "9", "0", "0", "S", "*", "2">>

NoTupleTwice(lines) ==
    \A i, j \in 1..Len(lines) : LineTuple(lines[i]) = LineTuple(lines[j]) => i = j

\* the first position of a line's tuple among the resolved lines
FirstSeen(lines, it) ==
    CHOOSE i \in 1..Len(lines) :
        /\ LineTuple(lines[i]) = LineTuple(it)
        /\ \A j \in 1..(i - 1) : LineTuple(lines[j]) # LineTuple(it)

FirstSeenOrder(resolved, lines) ==
    /\ \A i \in 1..Len(lines) : \E k \in 1..Len(resolved) : resolved[k] = lines[i]
    /\ \A i, j \in 1..Len(lines) :
           i < j => FirstSeen(resolved, lines[i]) < FirstSeen(resolved, lines[j])

IsLiteral(s) ==
    /\ \A i \in 1..Len(s) : s[i] \in Digits \cup {",", "."}
    /\ FloatOf(Without(s, ",")).ok

LiteralValue(s) == FloatOf(Without(s, ","))

FirstIndex(s, c) == CHOOSE i \in 1..Len(s) : s[i] = c /\ \A j \in 1..(i - 1) : s[j] # c

RightOfEquals(value) == Strip(SubSeq(value, FirstIndex(value, "=") + 1, Len(value)))

HasChar(s, c) == \E i \in 1..Len(s) : s[i] = c

\* the value is A*B for two literals A and B
IsProduct(value) ==
    /\ Cardinality({i \in 1..Len(value) : value[i] = "*"}) = 1
    /\ IsLiteral(Strip(SubSeq(value, 1, FirstIndex(value, "*") - 1)))
    /\ IsLiteral(Strip(SubSeq(value, FirstIndex(value, "*") + 1, Len(value))))

ProductValue(value) ==
    Times(LiteralValue(Strip(SubSeq(value, 1, FirstIndex(value, "*") - 1))),
          LiteralValue(Strip(SubSeq(value, FirstIndex(value, "*") + 1, Len(value)))))

Stripped(value) == SelectSeq(value, LAMBDA c : c \in Digits \cup {".", "-"})

NumericRules(value, result) ==
    /\ (HasChar(value, "=") /\ IsLiteral(RightOfEquals(value)))
           => result = LiteralValue(RightOfEquals(value))
    /\ (~HasChar(value, "=") /\ IsProduct(value))
           => result = ProductValue(value)
    /\ (~HasChar(value, "=") /\ ~HasChar(value, "*") /\ FloatOf(Stripped(value)).ok)
           => result = FloatOf(Stripped(value))
    /\ (~HasChar(value, "=") /\ ~HasChar(value, "*")
            /\ \A i \in 1..Len(value) : ~IsDigit(value[i]))
           => result = NoNumber

\* C6: both numeric parsers return the literal right of "=", else the
\* product A*B, else the number left after stripping every character other
\* than digits, "." and "-", and null when no digit survives.
C6_NumericParsersFollowRules ==
    numPc = "done" =>
        /\ NumericRules(numIn, numOut.nfs)
        /\ NumericRules(numIn, numOut.pn)

(***************************************************************************)
(* C2: a two-digit payment code resolves to the method with that id        *)
(***************************************************************************)
\* the payment-method value parse_lines hands on
PaymentValue == custRet.normalized.rawFields["paymentMethod"]

\* the configured payment methods, by lines 156-178
ConfiguredMethods == {PaymentObjects[i] : i \in 1..Len(PaymentObjects)}

\* C2: when the payment-method value is the two-digit id of a configured
\* payment method, the returned paymentMethod is the entry with that id and
\* paymentLabel is the label of that entry, whatever the other lines hold.
C2_CodeGivesEntryAndCanonicalLabel ==
    custPc = "returned" =>
        \A method \in ConfiguredMethods :
            PaymentValue = method.id =>
                /\ custRet.normalized.paymentMethod.has
                /\ custRet.normalized.paymentMethod.id = method.id
                /\ custRet.normalized.paymentMethod.label = method.label
                /\ custRet.normalized.paymentLabel = method.label

\* the code 03 next to a remark that holds the alias of another method
C2_Witness ==
    /\ custPc = "returned"
    /\ PaymentValue = <<"0", "3">>
    /\ custRet.normalized.remark = <<"u6708", "u8CBB">>
    /\ custRet.normalized.paymentLabel =
           <<"u9280", "u884C", "u5361", "u81EA", "u52D5", "u8F49", "u8CEC">>

(***************************************************************************)
(* C3: an alias as the whole payment-method value                          *)
(***************************************************************************)
\* C3: when the payment-method value is an alias of the alias table, the
\* returned paymentLabel is the canonical label the table gives for it, not
\* the alias, and paymentMethod is the entry of that canonical label.
C3_AliasGivesCanonicalLabel ==
    custPc = "returned" =>
        \A i \in 1..Len(_PAYMENT_ALIASES) :
            PaymentValue = _PAYMENT_ALIASES[i].alias =>
                /\ custRet.normalized.paymentLabel = _PAYMENT_ALIASES[i].canonical
                /\ custRet.normalized.paymentLabel # _PAYMENT_ALIASES[i].alias
                /\ custRet.normalized.paymentMethod.has
                /\ custRet.normalized.paymentMethod.label = _PAYMENT_ALIASES[i].canonical
                /\ \E method \in ConfiguredMethods :
                       /\ method.label = _PAYMENT_ALIASES[i].canonical
                       /\ method.id = custRet.normalized.paymentMethod.id

\* the alias 月費 gives 每月收費
C3_Witness ==
    /\ custPc = "returned"
    /\ PaymentValue = <<"u6708", "u8CBB">>
    /\ custRet.normalized.paymentLabel = <<"u6BCF", "u6708", "u6536", "u8CBB">>
    /\ custRet.normalized.paymentMethod.id = <<"0", "7">>

(***************************************************************************)
(* C4: the categorical entries of a returned record                        *)
(***************************************************************************)
\* an entry that is there with every one of its fields filled
Populated(entry, fields) == entry.has /\ \A f \in fields : entry[f] # <<>>

\* C4: in every returned record paymentMethod, usageMode, saleArea, owner
\* and customerClass are populated entries, none of them null.
C4_CategoricalEntriesNeverNull ==
    custPc = "returned" =>
        /\ Populated(custRet.normalized.paymentMethod, {"id", "label"})
        /\ Populated(custRet.normalized.usageMode, {"id", "label"})
        /\ Populated(custRet.normalized.saleArea, {"id", "code", "label"})
        /\ Populated(custRet.normalized.owner, {"id", "name"})
        /\ Populated(custRet.normalized.customerClass, {"id", "code", "label"})

(***************************************************************************)
(* C5: the default payment method and its warning                          *)
(***************************************************************************)
\* the payment-method value is absent or no rule resolves it
NoPaymentRuleMatches(value) ==
    /\ LabelOfCode(Strip(value)) = <<>>
    /\ extract_choice(value, KeysOf(paymentMethods)) = <<>>

\* C5: when the payment-method value is absent or matches no rule, the
\* record falls back to 一次性全繳 and the warnings hold the warning about
\* the unrecognized payment method.
C5_DefaultPaymentIsWarned ==
    (custPc = "returned" /\ NoPaymentRuleMatches(PaymentValue)) =>
        /\ custRet.normalized.paymentLabel = <<"u4E00", "u6B21", "u6027", "u5168", "u7E73">>
        /\ custRet.normalized.paymentMethod.id = <<"0", "1">>
        /\ \E i \in 1..Len(custRet.warnings) : custRet.warnings[i] = "unknownPayment"

(***************************************************************************)
(* C10: what makes parse_customer_text raise                               *)
(***************************************************************************)
\* C10: parse_customer_text raises only when the text is empty; for every
\* other text it returns a result.
C10_RaisesOnlyOnEmptyText ==
    custPc = "raised" => Strip(custText) = <<>>

(***************************************************************************)
(* C1: the application payload after _cleanup                              *)
(***************************************************************************)
\* no entry of a mapping and no element of a list, at any depth, is null,
\* the empty string, an empty list or an empty mapping
RECURSIVE NoEmptyLeaf(_)
NoEmptyLeaf(obj) ==
    IF obj.t = "map"
    THEN \A i \in 1..Len(obj.v) : ~IsBlank(obj.v[i].v) /\ NoEmptyLeaf(obj.v[i].v)
    ELSE IF obj.t = "list"
    THEN \A i \in 1..Len(obj.v) : ~IsBlank(obj.v[i]) /\ NoEmptyLeaf(obj.v[i])
    ELSE TRUE

\* C1: the payload build_apply_payload returns for a normalized customer
\* record holds, at any depth, no mapping entry and no list element that is
\* null, the empty string, an empty list or an empty mapping.
C1_PayloadHasNoEmptyLeaf ==
    applyPc = "built" => NoEmptyLeaf(applyOut.data)

(***************************************************************************)
(* C11: the payment code in the application payload                        *)
(***************************************************************************)
\* the value the mapping holds at the nested location of segments, null
\* when there is none
RECURSIVE ValueAtPath(_, _)
ValueAtPath(entries, segments) ==
    IF segments = <<>> \/ ~HasKey(entries, segments[1]) THEN JNull
    ELSE IF Len(segments) = 1 THEN GetOr(entries, segments[1], JNull)
    ELSE IF GetOr(entries, segments[1], JNull).t # "map" THEN JNull
    ELSE ValueAtPath(GetOr(entries, segments[1], JNull).v, Tail(segments))

\* value is held under the field: under the flat key, or at the nested
\* location of a dotted field
HeldAtField(entries, field_code, value) ==
    \/ GetOr(entries, field_code, JNull) = value
    \/ ValueAtPath(entries, Segments(field_code)) = value

\* C11: for a record with a resolved payment method, the payload holds the
\* id of the payment method at the payment field of the settings.
C11_PaymentCodeAtPaymentField ==
    (applyPc = "built" /\ applyParsed.normalized.paymentMethod.has) =>
        HeldAtField(applyOut.data.v, applySettings.payment_field,
                    JStr(applyParsed.normalized.paymentMethod.id))

(***************************************************************************)
(* C12: the time box of the session cache                                  *)
(***************************************************************************)
\* C12: a lookup of a stored, unconsumed session returns it while no more
\* than SESSION_TTL_SECONDS have passed since its creation, and fails with
\* LookupError once more have passed; after an insertion or a lookup no
\* entry of the cache is older than SESSION_TTL_SECONDS.
C12_SessionReturnedWithinTtl ==
    /\ (sessLast.op \in {"get", "create"} /\ sessLast.before = "live"
            /\ sessClock - sessLast.createdAt <= SESSION_TTL_SECONDS)
        => sessLast.result # "LookupError"
    /\ (sessLast.op \in {"get", "create"} /\ sessLast.before # "none"
            /\ sessClock - sessLast.createdAt > SESSION_TTL_SECONDS)
        => sessLast.result = "LookupError"
    /\ sessLast.op \in {"remember", "get", "create"}
        => \A i \in DOMAIN sessCache :
              sessCache[i].state = "live" => sessClock - sessCache[i].createdAt <= SESSION_TTL_SECONDS

\* a session is returned at exactly the TTL, after an older one was swept
C12_Witness ==
    /\ sessLast.op = "get" /\ sessLast.before = "live" /\ sessLast.result = "entry"
    /\ sessClock - sessLast.createdAt = SESSION_TTL_SECONDS
    /\ \E i \in DOMAIN sessCache : sessCache[i].state = "expired"

(***************************************************************************)
(* C13, C14: consumption of a session, and the discipline of the cache     *)
(***************************************************************************)
\* C13: once create_opportunity_from_session returned a success for a
\* token, the entry of the token is gone from the cache, and no session
\* leads to more than one successful creation.
C13_TokenCreatesAtMostOnce ==
    /\ \A t \in Threads :
          (sessReq[t].pc = "done" /\ sessReq[t].op = "create" /\ sessReq[t].result = "success")
              => ~CacheHas(sessCache, Strip(sessReq[t].token))
    /\ \A n \in 1..MaxSessions : sessCreated[n] <= 1

\* the request is between the first and the last dict operation of a
\* sweep, an insertion or a lookup
InSweep(r) == r.pc \in {"sweep", "evict"}

TouchesCache(r) == r.pc \in {"sweep", "evict", "act", "consume"}

\* C14: no request is inside the eviction sweep while another request is
\* inside an insertion, a lookup, a removal or a sweep of its own.
C14_CacheStepsExclusive ==
    \A t, u \in Threads : (t # u /\ InSweep(sessReq[t])) => ~TouchesCache(sessReq[u])

(***************************************************************************)
(* C15: the label caches                                                   *)
(***************************************************************************)
\* some record of the answer carries both an id and a label
StageLabelled(answer) ==
    ~answer.error /\ \E i \in DOMAIN answer.records :
        StageIdOf(answer.records[i]) # <<>> /\ StageNameOf(answer.records[i]) # <<>>

TransLabelled(answer) ==
    ~answer.error /\ \E i \in DOMAIN answer.records :
        TransIdOf(answer.records[i]) # <<>> /\ TransNameOf(answer.records[i]) # <<>>

\* C15: a use of a label cache that finds it non-empty issues no remote
\* lookup and leaves every entry as it was; a use that finds it empty
\* issues the lookup, and the cache is non-empty afterwards exactly when
\* the answer held a labelled record.
C15_LabelCacheFilledOnce ==
    /\ lblLast.which = "stage" =>
          /\ lblLast.before # <<>> => (~lblLast.looked /\ lblStage = lblLast.before)
          /\ lblLast.before = <<>> =>
                (lblLast.looked /\ (lblStage # <<>> <=> StageLabelled(lblLast.answer)))
    /\ lblLast.which = "trans" =>
          /\ lblLast.before # <<>> => (~lblLast.looked /\ lblTrans = lblLast.before)
          /\ lblLast.before = <<>> =>
                (lblLast.looked /\ (lblTrans # <<>> <=> TransLabelled(lblLast.answer)))

\* a filled stage cache is used again with an answer that would have
\* brought another label, while the transaction type cache is still empty
C15_Witness ==
    /\ lblLast.which = "stage" /\ lblLast.before # <<>> /\ StageLabelled(lblLast.answer)
    /\ \E i \in DOMAIN lblLast.answer.records :
          ~HasKey(lblStage, Lower(StageNameOf(lblLast.answer.records[i])))
             /\ StageIdOf(lblLast.answer.records[i]) # <<>>
             /\ StageNameOf(lblLast.answer.records[i]) # <<>>
    /\ lblTrans = <<>>

(***************************************************************************)
(* C16, C17: the remote calls of a submission                              *)
(***************************************************************************)
\* C16: a create-opportunity request has been sent only if the audit of
\* the application passed or the caller asked to skip it.
C16_OpportunityOnlyAfterAudit ==
    runCalls.create > 0 => runAudit \in {"passed", "skipped"}

\* C17: the duplicate check, the submit and the audit are each sent at most
\* once in a submission.
C17_EachCallSentOnce ==
    runCalls.duplicate <= 1 /\ runCalls.submit <= 1 /\ runCalls.audit <= 1

(***************************************************************************)
(* C18: the customer id lookup                                             *)
(***************************************************************************)
\* the remote system holds a follow-up record of the customer code that
\* carries a customer id
MatchingFollowups(code, remote) ==
    {r \in remote : Contains(Upper(r.customerCode), Upper(code)) /\ r.customerId # <<>>}

\* C18: the lookup returns after at most max(retries, 1) attempts; when the
\* remote system holds a matching follow-up record it returns the customer
\* id of one, and it returns None only when there is none.
C18_LookupFindsMatchingCustomer ==
    /\ lkAttempts <= AttemptsOf(lkRetries)
    /\ (lkPc = "returned" /\ lkCode # <<>>) =>
          IF MatchingFollowups(lkCode, lkRemote) # {}
          THEN \E r \in MatchingFollowups(lkCode, lkRemote) : lkRet = r.customerId
          ELSE lkRet = <<>>

(***************************************************************************)
(* C19: the upcoming task date                                             *)
(***************************************************************************)
\* the dates of the records on or after the reference date
FutureTaskDays ==
    {TaskDateOf(taskRecords[i]) : i \in {j \in DOMAIN taskRecords : TaskDateOf(taskRecords[j]) >= ReferenceDay}}

\* C19: called without a gap limit, _extract_upcoming_task_date returns the
\* earliest date on or after the reference date when there is one, and a
\* date before the reference date only when there is none.
C19_UpcomingIsEarliestFuture ==
    (taskPc = "returned" /\ taskGap = -1) =>
        /\ FutureTaskDays # {} => taskRet = SetMin(FutureTaskDays)
        /\ (taskRet # 0 /\ taskRet < ReferenceDay) => FutureTaskDays = {}

(***************************************************************************)
(* C20: dotted field codes                                                 *)
(***************************************************************************)
\* a.b...z: at least two segments, none empty, no "__"
DottedPath(field_code) ==
    /\ ~Contains(field_code, <<"_", "_">>)
    /\ Len(SplitOn(field_code, {"."})) >= 2
    /\ \A i \in DOMAIN SplitOn(field_code, {"."}) : SplitOn(field_code, {"."})[i] # <<>>

\* C20: after _assign_field with a dotted path and a non-empty value, the
\* value is at the nested location of the path, and the target has no key
\* equal to the whole path.
C20_DottedPathStoredNested ==
    (asgPc = "assigned" /\ DottedPath(asgField) /\ ~IsBlank(asgValue)) =>
        /\ ValueAtPath(asgData, Segments(asgField)) = asgValue
        /\ ~HasKey(asgData, asgField)

(***************************************************************************)
(* C21, C22: what extract_choice returns for a set of candidates           *)
(***************************************************************************)
\* the candidates as a set
CandidateSet(site) == {CandidatesAt(site)[i] : i \in 1..Len(CandidatesAt(site))}

\* C21: at every call site extract_choice returns no match or one of the
\* candidates it was given, so the category resolved for a field is a
\* member of that field's mapping.
C21_ChoiceIsACandidate ==
    chPc = "resolved" => (chChoice = <<>> \/ chChoice \in CandidateSet(chSite))

\* no numeric-code, parenthesis or exact label or alias rule matches value
NoExactRule(value, site) ==
    /\ (site = "paymentMethod" => LabelOfCode(Strip(value)) = <<>>)
    /\ CodeChoice(NoSpace(value), CandidatesAt(site)) = <<>>
    /\ ParenChoice(NoSpace(value), CandidatesAt(site)) = <<>>
    /\ AliasChoice(NoSpace(value)) = <<>>
    /\ DirectChoice(NoSpace(value), CandidatesAt(site)) = <<>>

\* the candidates that hold the value, blanks dropped, or are held by it
SubstringCandidates(value, site) ==
    {c \in CandidateSet(site) :
        Contains(NoSpace(value), Without(c, " ")) \/ Contains(Without(c, " "), NoSpace(value))}

\* C22: a value that matches no numeric-code, parenthesis or exact rule but
\* contains a candidate, or is contained in one, resolves to such a
\* candidate and not to the default: 買斷 gives the usage mode 買.
C22_SubstringGivesCandidate ==
    (/\ chPc = "resolved"
     /\ NoSpace(chValue) # <<>>
     /\ NoExactRule(chValue, chSite)
     /\ SubstringCandidates(chValue, chSite) # {}) =>
        /\ chChoice \in SubstringCandidates(chValue, chSite)
        /\ chLabel = chChoice

(***************************************************************************)
(* C23, C24, C25: the line parsers                                         *)
(***************************************************************************)
\* the placeholder tokens, written in lower case
PlaceholderWords ==
    {<<"-", "-">>,
     <<"u2014">>,
     <<"-">>,
     <<"u66AB", "u7121">>,
     <<"u7121">>,
     <<"n", "/", "a">>,
     <<"n", "a">>}

IsPlaceholder(value) == Lower(value) \in PlaceholderWords

\* the line the loop is at, stripped; <<>> when the loop is over
LineNow == IF lnPc = "loop" /\ lnI <= Len(lnLines) THEN Strip(lnLines[lnI]) ELSE <<>>

\* the key whose label the line the loop is at is recognized to carry, ""
\* when it carries none
KeyNow ==
    IF LineNow = <<>> THEN ""
    ELSE IF lnParser = "parse_lines"
    THEN (IF SeparatorOf(LineNow) # "" THEN LineKey(LineNow) ELSE "")
    ELSE IF ValueBelow(lnLines, lnI) THEN OpportunityKey(LineNow)
    ELSE ColonKey(LineNow)

\* the value written for that label, stripped
ValueNow ==
    IF lnParser = "parse_lines" THEN LineValue(LineNow)
    ELSE IF ValueBelow(lnLines, lnI) THEN Strip(lnLines[lnI + 1])
    ELSE Strip(SubSeq(LineNow, ColonAt(LineNow) + 1, Len(LineNow)))

\* C23: in both parsers a line with a recognized label whose value is a
\* placeholder token (--, a dash, 暫無, 無, n/a, na, in any letter case) is
\* recorded under its key with the empty string as the value.
C23_PlaceholderRecordedEmpty ==
    [][(KeyNow # "" /\ IsPlaceholder(ValueNow)) =>
           (lnParsed'[KeyNow] = <<>> /\ KeyNow \in lnKeys')]_vars

\* a line of the text carries a recognized label of the customer table
Recognized(line) ==
    /\ Strip(line) # <<>>
    /\ SeparatorOf(Strip(line)) # ""
    /\ LineKey(Strip(line)) # ""

\* the last line that carries the label of key, 0 when no line does
LastLineOf(key) ==
    IF \E i \in 1..Len(lnLines) : Recognized(lnLines[i]) /\ LineKey(Strip(lnLines[i])) = key
    THEN SetMax({i \in 1..Len(lnLines) :
                    Recognized(lnLines[i]) /\ LineKey(Strip(lnLines[i])) = key})
    ELSE 0

\* the non-blank lines below line r before the next line with a recognized
\* label, in the order of the text
LinesBelow(r) ==
    SelectSeq([j \in 1..Len(lnLines) |-> j],
              LAMBDA j : /\ j > r
                         /\ Strip(lnLines[j]) # <<>>
                         /\ \A m \in (r + 1)..j : ~Recognized(lnLines[m]))

\* the value of the remark line r and the lines below it, joined by newlines
RemarkWithLinesBelow(r) ==
    JoinLines((IF LineValue(Strip(lnLines[r])) = <<>> THEN <<>>
               ELSE <<LineValue(Strip(lnLines[r]))>>) \o
              [n \in 1..Len(LinesBelow(r)) |-> Strip(lnLines[LinesBelow(r)[n]])])

\* C24: parse_lines returns, for the remark, the value of its last remark
\* line followed by every non-blank line without a recognized label below
\* it, newline-joined in input order, up to the next line with a recognized
\* label; every other key holds the value of its last labelled line, so a
\* line without a recognized label below another field changes nothing.
C24_RemarkTakesLinesBelow ==
    (lnParser = "parse_lines" /\ lnPc = "returned") =>
        /\ lnKeys = {k \in FieldKeys : LastLineOf(k) # 0}
        /\ LastLineOf("remark") # 0 =>
               lnParsed["remark"] = RemarkWithLinesBelow(LastLineOf("remark"))
        /\ \A k \in FieldKeys \ {"remark"} :
               lnParsed[k] = IF LastLineOf(k) = 0 THEN <<>>
                             ELSE LineValue(Strip(lnLines[LastLineOf(k)]))

\* a remark, a line with an unknown label and a bare line: all three are in
\* the remark
C24_Witness ==
    /\ lnParser = "parse_lines" /\ lnPc = "returned"
    /\ lnLines = <<<<"u5099", "u8A3B", ":", " ", "a">>, <<"c", ":", " ", "d">>, <<"b">>>>
    /\ lnParsed["remark"] = <<"a", "LF", "c", ":", " ", "d", "LF", "b">>

\* C25: for every label L of the opportunity label table and every value v
\* that is no placeholder, _parse_lines records v under the key of L for the
\* one-line text "L: v" and for "L：v".
C25_EveryLabelRecordsItsValue ==
    (lnParser = "_parse_lines" /\ lnPc = "returned") =>
        \A i \in 1..Len(OPPORTUNITY_LABEL_MAP) : \A sep \in LabelSeparators : \A v \in LineValues :
            lnLines = <<OPPORTUNITY_LABEL_MAP[i].label \o sep \o v>> =>
                /\ OPPORTUNITY_LABEL_MAP[i].key \in lnKeys
                /\ lnParsed[OPPORTUNITY_LABEL_MAP[i].key] = v

(***************************************************************************)
(* C26: the expected signing amount                                        *)
(***************************************************************************)
\* the text gives no expected signing amount, and the monthly fee (of the
\* text, else of the customer record) and the contract years are known
FeeAndYearsOnly ==
    /\ ~monFields.expectSignMoney.has
    /\ Truthy(IfNone(monFields.monthlyFee, monCustomer.monthlyFee))
    /\ monFields.contractYears # 0

FeeTimesYears ==
    Amount(IfNone(monFields.monthlyFee, monCustomer.monthlyFee).n * monFields.contractYears * 12)

\* C26 as stated: whenever the text gives no expected signing amount and the
\* monthly fee and contract years are known, expectSignMoney of the
\* opportunity is monthlyFee * contractYears * 12, whatever the other
\* amounts of the text and the customer record.
C26_ExpectedFromFeeAndYears ==
    (monPc = "payload" /\ FeeAndYearsOnly) =>
        /\ monCtx.expectSignMoney = FeeTimesYears
        /\ monPayload = NatStr(FeeTimesYears.n)

\* C26 amended: under the same conditions expectSignMoney is the total
\* amount (of the text, else of the customer record) when that is known and
\* not zero, and monthlyFee * contractYears * 12 otherwise.
C26_ExpectedFromTotalFirst ==
    (monPc = "payload" /\ FeeAndYearsOnly) =>
        /\ monCtx.expectSignMoney =
               IF Truthy(IfNone(monFields.totalAmount, monCustomer.totalAmount))
               THEN IfNone(monFields.totalAmount, monCustomer.totalAmount)
               ELSE FeeTimesYears
        /\ monPayload = NatStr(monCtx.expectSignMoney.n)

\* a text with a monthly fee of 100, two years and a total of 500: the
\* payload carries 500, not 2400
C26_Witness ==
    /\ monPc = "payload" /\ FeeAndYearsOnly
    /\ monFields.totalAmount = Amount(500)
    /\ monFields.monthlyFee = Amount(100)
    /\ monFields.contractYears = 2
    /\ monPayload = <<"5", "0", "0">>

(***************************************************************************)
(* C27, C28: the stage of an opportunity                                   *)
(***************************************************************************)
\* the usage label of the context holds a rent token / a buy token
UsageHasRent == HasToken(Lower(stgContext.usageLabel), RentTokens)

UsageHasBuy == HasToken(Lower(stgContext.usageLabel), BuyTokens)

\* the stage candidate of a bucket: the configured stage, else the default
BuyStageCandidate == Or(stgSettings.opportunity_stage_buy, DEFAULT_STAGE_BUY_ID)

RentStageCandidate == Or(stgSettings.opportunity_stage_rent, DEFAULT_STAGE_RENT_ID)

\* the stage hint of the context names no stage: none given, or a label the
\* stage cache does not hold
NoStageFromHint == StageOfCandidate(stgContext.stageHint, stgCache) = <<>>

RentStageIds == {DEFAULT_STAGE_RENT_ID, stgSettings.opportunity_stage_rent} \ {<<>>}

BuyStageIds == {DEFAULT_STAGE_BUY_ID, stgSettings.opportunity_stage_buy} \ {<<>>}

\* C28: in every payload the processStage id is of the bucket of the
\* opptStage id: the rent process stage with a rent stage id, the buy
\* process stage with a buy stage id, whatever the stage hint and the usage
\* label
C28_ProcessStageOfTheStageBucket ==
    stgPc = "payload" =>
        /\ stgData.opptStage \in RentStageIds =>
              stgData.processStage = DEFAULT_STAGE_RENT_PROCESS_STAGE_ID
        /\ stgData.opptStage \in BuyStageIds =>
              stgData.processStage = DEFAULT_STAGE_BUY_PROCESS_STAGE_ID

(***************************************************************************)
(* C29, C30: the entries a product text resolves to                        *)
(***************************************************************************)
\* the positions of the kits and of the leaves of the catalog
Kits == {i \in 1..Len(catalog) : catalog[i].children # <<>>}

Leaves == {i \in 1..Len(catalog) : catalog[i].children = <<>>}

\* the entries of the catalog whose key the product text holds
KeysHeld == {i \in 1..Len(catalog) : Contains(Upper(prodText), catalog[i].key)}

\* the dicts of the children of the kit at position i, in the kit's order
ChildrenData(i) ==
    [j \in 1..Len(catalog[i].children) |-> CatalogData(KeyIndex(catalog[i].children[j]))]

\* the first position of a dict in a list of results, 0 when it is not in it
PositionIn(results, data) ==
    IF \E i \in 1..Len(results) : results[i] = data
    THEN SetMin({i \in 1..Len(results) : results[i] = data})
    ELSE 0

\* the dicts of part are all in results, in the order of part
InOrderIn(results, part) ==
    /\ \A j \in 1..Len(part) : PositionIn(results, part[j]) > 0
    /\ \A j, k \in 1..Len(part) :
           j < k => PositionIn(results, part[j]) < PositionIn(results, part[k])

\* C29: for every product text, no entry _lookup_products returns has
\* children and every line of _parse_install_items carries the name and code
\* of an entry without children; a kit whose key the text holds contributes
\* its children in the kit's child order and nothing else, and what the
\* match on product names returns are entries without children
C29_KitsGiveOnlyTheirChildren ==
    prodPc = "parsed" =>
        /\ \A k \in 1..Len(prodFound.results) : prodFound.results[k].children = <<>>
        /\ \A k \in 1..Len(prodItems) :
               \E i \in Leaves : /\ catalog[i].name = prodItems[k].name
                                 /\ catalog[i].code = prodItems[k].code
        /\ \A i \in Kits \cap KeysHeld : InOrderIn(prodFound.results, ChildrenData(i))
        /\ prodFound.step = "key" =>
               \A k \in 1..Len(prodFound.results) :
                   \/ \E i \in Leaves \cap KeysHeld : prodFound.results[k] = CatalogData(i)
                   \/ \E i \in Kits \cap KeysHeld :
                          PositionIn(ChildrenData(i), prodFound.results[k]) > 0
        /\ prodText \in {catalog[i].key : i \in Kits} =>
               prodFound.results = ChildrenData(KeyIndex(prodText))
        /\ prodFound.step = "name" =>
               \A k \in 1..Len(prodFound.results) :
                   \E i \in Leaves : prodFound.results[k] = CatalogData(i)

\* the kit RO900S looked up: its two children in the order of the kit, which
\* is not the order of the catalog, as entries and as lines
C29_Witness ==
    /\ prodPc = "parsed"
    /\ prodText = <<"R", "O", "9", "0", "0", "S">>
    /\ prodFound.step = "key"
    /\ Len(prodFound.results) = 2
    /\ prodFound.results[1].code = <<"1", "3", "5", "1">>
    /\ prodFound.results[2].code = <<"1", "3", "5", "0">>
    /\ KeyIndex(<<"R", "-", "0", "0", "2">>) > KeyIndex(<<"R", "-", "0", "0", "1">>)
    /\ Len(prodItems) = 2
    /\ prodItems[1].code = <<"1", "3", "5", "1">>

\* C30: for every key of the catalog stored with an entry without children,
\* _lookup_products of the key returns that one entry and nothing else, and
\* the key gives one line
C30_LeafKeyGivesItsEntry ==
    (prodPc = "parsed" /\ \E i \in Leaves : catalog[i].key = prodText) =>
        /\ prodFound.results = <<CatalogData(KeyIndex(prodText))>>
        /\ Len(prodItems) = 1

(***************************************************************************)
(* Specifications: one per component, the others idle                      *)
(***************************************************************************)
InitNumeric == NumInit /\ ConIdle /\ ItemIdle /\ BomIdle /\ CustIdle /\ ApplyIdle /\ SessIdle /\ LblIdle /\ RunIdle /\ LkIdle /\ TaskIdle /\ AsgIdle /\ ChoiceIdle /\ LinesIdle /\ MonIdle /\ StgIdle /\ ProdIdle

SpecNumeric == InitNumeric /\ [][NumNext]_vars

InitContract == ConInit /\ NumIdle /\ ItemIdle /\ BomIdle /\ CustIdle /\ ApplyIdle /\ SessIdle /\ LblIdle /\ RunIdle /\ LkIdle /\ TaskIdle /\ AsgIdle /\ ChoiceIdle /\ LinesIdle /\ MonIdle /\ StgIdle /\ ProdIdle

SpecContract == InitContract /\ [][ConNext]_vars

InitItems == ItemInit /\ NumIdle /\ ConIdle /\ BomIdle /\ CustIdle /\ ApplyIdle /\ SessIdle /\ LblIdle /\ RunIdle /\ LkIdle /\ TaskIdle /\ AsgIdle /\ ChoiceIdle /\ LinesIdle /\ MonIdle /\ StgIdle /\ ProdIdle

SpecItems == InitItems /\ [][ItemNext]_vars

InitBom == BomInit /\ NumIdle /\ ConIdle /\ ItemIdle /\ CustIdle /\ ApplyIdle /\ SessIdle /\ LblIdle /\ RunIdle /\ LkIdle /\ TaskIdle /\ AsgIdle /\ ChoiceIdle /\ LinesIdle /\ MonIdle /\ StgIdle /\ ProdIdle

SpecBom == InitBom /\ [][BomNext]_vars

InitCustomer == CustInit /\ NumIdle /\ ConIdle /\ ItemIdle /\ BomIdle /\ ApplyIdle /\ SessIdle /\ LblIdle /\ RunIdle /\ LkIdle /\ TaskIdle /\ AsgIdle /\ ChoiceIdle /\ LinesIdle /\ MonIdle /\ StgIdle /\ ProdIdle

SpecCustomer == InitCustomer /\ [][CustNext]_vars

InitApply == ApplyInit /\ NumIdle /\ ConIdle /\ ItemIdle /\ BomIdle /\ CustIdle /\ SessIdle /\ LblIdle /\ RunIdle /\ LkIdle /\ TaskIdle /\ AsgIdle /\ ChoiceIdle /\ LinesIdle /\ MonIdle /\ StgIdle /\ ProdIdle

SpecApply == InitApply /\ [][ApplyNext]_vars

InitSession == SessInit /\ NumIdle /\ ConIdle /\ ItemIdle /\ BomIdle /\ CustIdle /\ ApplyIdle /\ LblIdle /\ RunIdle /\ LkIdle /\ TaskIdle /\ AsgIdle /\ ChoiceIdle /\ LinesIdle /\ MonIdle /\ StgIdle /\ ProdIdle

SpecSession == InitSession /\ [][SessNext]_vars

SpecSessionThreads == InitSession /\ [][ThreadsNext]_vars

InitLabels == LblInit /\ NumIdle /\ ConIdle /\ ItemIdle /\ BomIdle /\ CustIdle /\ ApplyIdle /\ SessIdle /\ RunIdle /\ LkIdle /\ TaskIdle /\ AsgIdle /\ ChoiceIdle /\ LinesIdle /\ MonIdle /\ StgIdle /\ ProdIdle

SpecLabels == InitLabels /\ [][LblNext]_vars

InitRun == RunInit /\ NumIdle /\ ConIdle /\ ItemIdle /\ BomIdle /\ CustIdle /\ ApplyIdle /\ SessIdle /\ LblIdle /\ LkIdle /\ TaskIdle /\ AsgIdle /\ ChoiceIdle /\ LinesIdle /\ MonIdle /\ StgIdle /\ ProdIdle

SpecRun == InitRun /\ [][RunNext]_vars

InitLookup == LkInit /\ NumIdle /\ ConIdle /\ ItemIdle /\ BomIdle /\ CustIdle /\ ApplyIdle /\ SessIdle /\ LblIdle /\ RunIdle /\ TaskIdle /\ AsgIdle /\ ChoiceIdle /\ LinesIdle /\ MonIdle /\ StgIdle /\ ProdIdle

SpecLookup == InitLookup /\ [][LkNext]_vars

InitTasks == TaskInit /\ NumIdle /\ ConIdle /\ ItemIdle /\ BomIdle /\ CustIdle /\ ApplyIdle /\ SessIdle /\ LblIdle /\ RunIdle /\ LkIdle /\ AsgIdle /\ ChoiceIdle /\ LinesIdle /\ MonIdle /\ StgIdle /\ ProdIdle

SpecTasks == InitTasks /\ [][TaskNext]_vars

InitAssign == AsgInit /\ NumIdle /\ ConIdle /\ ItemIdle /\ BomIdle /\ CustIdle /\ ApplyIdle /\ SessIdle /\ LblIdle /\ RunIdle /\ LkIdle /\ TaskIdle /\ ChoiceIdle /\ LinesIdle /\ MonIdle /\ StgIdle /\ ProdIdle

SpecAssign == InitAssign /\ [][AsgNext]_vars

InitChoice == ChoiceInit /\ NumIdle /\ ConIdle /\ ItemIdle /\ BomIdle /\ CustIdle /\ ApplyIdle /\ SessIdle /\ LblIdle /\ RunIdle /\ LkIdle /\ TaskIdle /\ AsgIdle /\ LinesIdle /\ MonIdle /\ StgIdle /\ ProdIdle

SpecChoice == InitChoice /\ [][ChoiceNext]_vars

InitLines == LinesInit /\ NumIdle /\ ConIdle /\ ItemIdle /\ BomIdle /\ CustIdle /\ ApplyIdle /\ SessIdle /\ LblIdle /\ RunIdle /\ LkIdle /\ TaskIdle /\ AsgIdle /\ ChoiceIdle /\ MonIdle /\ StgIdle /\ ProdIdle

SpecLines == InitLines /\ [][LinesNext]_vars

InitMoney == MonInit /\ NumIdle /\ ConIdle /\ ItemIdle /\ BomIdle /\ CustIdle /\ ApplyIdle /\ SessIdle /\ LblIdle /\ RunIdle /\ LkIdle /\ TaskIdle /\ AsgIdle /\ ChoiceIdle /\ LinesIdle /\ StgIdle /\ ProdIdle

SpecMoney == InitMoney /\ [][MonNext]_vars

InitStage == StgInit /\ NumIdle /\ ConIdle /\ ItemIdle /\ BomIdle /\ CustIdle /\ ApplyIdle /\ SessIdle /\ LblIdle /\ RunIdle /\ LkIdle /\ TaskIdle /\ AsgIdle /\ ChoiceIdle /\ LinesIdle /\ MonIdle /\ ProdIdle

SpecStage == InitStage /\ [][StgNext]_vars

InitProduct == ProdInit /\ NumIdle /\ ConIdle /\ ItemIdle /\ BomIdle /\ CustIdle /\ ApplyIdle /\ SessIdle /\ LblIdle /\ RunIdle /\ LkIdle /\ TaskIdle /\ AsgIdle /\ ChoiceIdle /\ LinesIdle /\ MonIdle /\ StgIdle

SpecProduct == InitProduct /\ [][ProdNext]_vars

====
